---------------------------- MODULE Spec2Model ----------------------------
(***************************************************************************)
(* Checkpoint persistence and restoration of paxml (paxml/checkpoints.py). *)
(*                                                                         *)
(* A TrainState is a record [step, mdl_vars, opt_states]; step is one      *)
(* leaf, mdl_vars and opt_states are sequences of leaves.  A leaf is a     *)
(* record [kind, data]: an array, a ShapeDtypeStruct (restore targets), an *)
(* optax.MaskedNode or a praxis BpropMaskedNode.                           *)
(*                                                                         *)
(* Three specifications share the definitions:                             *)
(*   SpecTree    the pure functions _tensorstore_prepare and               *)
(*               _tensorstore_reconstruct applied to bounded inputs;       *)
(*   SpecHandler PaxCheckpointHandler / FlaxCheckpointHandler saving to    *)
(*               and restoring from one step directory;                    *)
(*   Spec        save_checkpoint / restore_checkpoint over the step-indexed*)
(*               checkpoint directory.                                     *)
(*                                                                         *)
(* Four more specifications cover the code around the checkpoints:         *)
(*   SpecTrain   BaseTrainProgram.run and its _InflightQueue               *)
(*               (paxml/programs.py);                                      *)
(*   SpecEval    BaseEvalProgram.run on every process of a job, with the   *)
(*               eval output files it reads and writes;                    *)
(*   SpecInputCheckpoint  BaseInputCheckpointHandler.save / restore on     *)
(*               every process of a job;                                   *)
(*   SpecInput   the padding arithmetic of TextInput and TFRecordBertInput *)
(*               (paxml/tasks/lm/input_generator.py).                      *)
(***************************************************************************)
EXTENDS Integers, Sequences, FiniteSets, TLC

\* ------------------------------------------------------------------ bounds
MaxStep == 2      \* steps are 1..MaxStep
NumVals == 2      \* array contents are 1..NumVals
MaxOpt == 2       \* number of opt_states leaves of a TrainState
MaxDim == 2       \* array shapes are 1..MaxDim
MaxInflight == 2  \* max_inflight_steps is -1..MaxInflight
MaxProcesses == 2  \* a job has 1..MaxProcesses processes
MaxEvalStep == 2  \* eval programs run at train steps 1..MaxEvalStep
MaxPairs == 2     \* an eval step has 0..MaxPairs scoring outputs
MaxEvalBatches == 2  \* an eval input holds 0..MaxEvalBatches batches
MaxLoopBatches == 2  \* eval_loop_num_batches is 0..MaxLoopBatches
MaxSamples == 5   \* an input file has 0..MaxSamples lines or records
MaxHosts == 3     \* num_infeed_hosts is 1..MaxHosts
MaxBatch == 3     \* batch_size is 1..MaxBatch
MaxTrainSteps == 6  \* a train program runs at most MaxTrainSteps steps

\* ------------------------------------------------------------------ leaves
\* A leaf is [kind, data, shape]: shape is the size of the array's one
\* dimension, 0 where the leaf has none.
ArrayOfShape(v, s) == [kind |-> "Array", data |-> v, shape |-> s]
Array(v) == ArrayOfShape(v, 1)
ShapeDtypeStructOf(s) == [kind |-> "ShapeDtypeStruct", data |-> 0, shape |-> s]
ShapeDtypeStruct == ShapeDtypeStructOf(1)
MaskedNode == [kind |-> "MaskedNode", data |-> 0, shape |-> 0]
BpropMaskedNode == [kind |-> "BpropMaskedNode", data |-> 0, shape |-> 0]
PartitionSpec == [kind |-> "PartitionSpec", data |-> 0, shape |-> 0]
None == [kind |-> "None", data |-> 0, shape |-> 0]

Vals == 1..NumVals
Arrays == {Array(v) : v \in Vals}
Dims == 1..MaxDim

is_optax_masked_node(x) == x.kind = "MaskedNode"
is_bprop_masked_node(x) == x.kind = "BpropMaskedNode"
is_any_masked_node(x) == is_optax_masked_node(x) \/ is_bprop_masked_node(x)

\* The is_leaf argument of the jax.tree_util functions, by name.
never_leaf == "never_leaf"
optax_is_leaf == "is_optax_masked_node"
bprop_is_leaf == "is_bprop_masked_node"

IsLeafBy(is_leaf, x) ==
  CASE is_leaf = optax_is_leaf -> is_optax_masked_node(x)
    [] is_leaf = bprop_is_leaf -> is_bprop_masked_node(x)
    [] OTHER -> FALSE

\* _masked_node_to_none: MaskedNode() when `mask` is a MaskedNode, else value.
masked_node_to_none(mask, value) ==
  IF is_optax_masked_node(mask) THEN MaskedNode ELSE value

\* ------------------------------------------------------- jax.tree_util
\* All positions of a TrainState in the canonical order (step, mdl_vars,
\* opt_states).
TreeSeq(ts) == <<ts.step>> \o ts.mdl_vars \o ts.opt_states

\* A position is a leaf of tree_flatten when is_leaf accepts it or when it is
\* not an empty container; optax.MaskedNode (an empty NamedTuple) and None
\* are empty containers.
IsJaxLeaf(x, is_leaf) ==
  IsLeafBy(is_leaf, x) \/ ~(is_optax_masked_node(x) \/ x.kind = "None")

tree_leaves(ts, is_leaf) ==
  SelectSeq(TreeSeq(ts), LAMBDA x : IsJaxLeaf(x, is_leaf))

\* The structural descriptor: "*" at a leaf, the empty container itself at
\* the other positions.
TreedefSlot(x, is_leaf) == IF IsJaxLeaf(x, is_leaf) THEN "*" ELSE x.kind

tree_structure(ts, is_leaf) ==
  [mdl_vars |-> [i \in 1..Len(ts.mdl_vars) |->
                   TreedefSlot(ts.mdl_vars[i], is_leaf)],
   opt_states |-> [i \in 1..Len(ts.opt_states) |->
                   TreedefSlot(ts.opt_states[i], is_leaf)],
   step |-> TreedefSlot(ts.step, is_leaf)]

TreedefSeq(td) == <<td.step>> \o td.mdl_vars \o td.opt_states

NumLeaves(td) == Len(SelectSeq(TreedefSeq(td), LAMBDA s : s = "*"))

\* Number of "*" slots among the first n slots of a slot sequence.
RECURSIVE LeavesBefore(_, _)
LeavesBefore(slots, n) ==
  IF n = 0 THEN 0
  ELSE LeavesBefore(slots, n - 1) + (IF slots[n] = "*" THEN 1 ELSE 0)

\* Slot p of the rebuilt tree: the next flat leaf, or the empty container
\* the treedef recorded.
UnflattenSlot(slots, leaves, p) ==
  IF slots[p] = "*" THEN leaves[LeavesBefore(slots, p)]
  ELSE [kind |-> slots[p], data |-> 0, shape |-> 0]

\* tree_unflatten(treedef, leaves); the caller checks the leaf count.
tree_unflatten(td, leaves) ==
  LET slots == TreedefSeq(td)
      nm == Len(td.mdl_vars)
  IN [step |-> UnflattenSlot(slots, leaves, 1),
      mdl_vars |-> [i \in 1..nm |-> UnflattenSlot(slots, leaves, 1 + i)],
      opt_states |-> [i \in 1..Len(td.opt_states) |->
                        UnflattenSlot(slots, leaves, 1 + nm + i)]]

\* The functions the code maps over two trees, by name.
KeepStoredValue(x, y) == y

KeepTargetMask(x, y) == IF is_bprop_masked_node(x) THEN x ELSE y

Apply2(f, x, y) ==
  CASE f = "_masked_node_to_none" -> masked_node_to_none(x, y)
    [] f = "keep_target_mask" -> KeepTargetMask(x, y)

\* tree_map(f, a, b, is_leaf) on TrainStates of one structure.
tree_map2(f, a, b) ==
  [step |-> Apply2(f, a.step, b.step),
   mdl_vars |-> [i \in 1..Len(a.mdl_vars) |->
                   Apply2(f, a.mdl_vars[i], b.mdl_vars[i])],
   opt_states |-> [i \in 1..Len(a.opt_states) |->
                     Apply2(f, a.opt_states[i], b.opt_states[i])]]


\* ------------------------------------------------------------ TrainState
TrainState(step, mdl_vars, opt_states) ==
  [step |-> step, mdl_vars |-> mdl_vars, opt_states |-> opt_states]

NoState == TrainState(None, <<>>, <<>>)

\* The restore target of a TrainState: ShapeDtypeStruct at every array.
ShapeOf(x) == IF x.kind = "Array" THEN ShapeDtypeStructOf(x.shape) ELSE x

get_shape_dtype_struct(ts) ==
  TrainState(ShapeOf(ts.step),
             [i \in 1..Len(ts.mdl_vars) |-> ShapeOf(ts.mdl_vars[i])],
             [i \in 1..Len(ts.opt_states) |-> ShapeOf(ts.opt_states[i])])

\* ------------------------------------------------- names of the leaves
NameLeaf(n) == [kind |-> "Name", data |-> 0, shape |-> 0, name |-> n]

\* py_utils.extract_prefixed_keys_from_nested_map with key_separator '.',
\* left_separator '_' and right_separator '': element i of a sequence under
\* prefix p is named p_i (0-based); a node is_leaf accepts becomes None.
PrefixedKey(prefix, i) == prefix \o "_" \o ToString(i - 1)

extract_nested_prefix_names_no_index(state) ==
  TrainState(
    NameLeaf("step"),
    [i \in 1..Len(state.mdl_vars) |-> NameLeaf("mdl_vars")],
    [i \in 1..Len(state.opt_states) |->
       IF is_optax_masked_node(state.opt_states[i]) THEN None
       ELSE NameLeaf("opt_states")])

extract_nested_prefix_names_keeps_masked(state) ==
  TrainState(
    NameLeaf("step"),
    [i \in 1..Len(state.mdl_vars) |-> NameLeaf(PrefixedKey("mdl_vars", i))],
    [i \in 1..Len(state.opt_states) |->
       NameLeaf(PrefixedKey("opt_states", i))])

extract_nested_prefix_names(state) ==
  TrainState(
    NameLeaf("step"),
    [i \in 1..Len(state.mdl_vars) |-> NameLeaf(PrefixedKey("mdl_vars", i))],
    [i \in 1..Len(state.opt_states) |->
       IF is_optax_masked_node(state.opt_states[i]) THEN None
       ELSE NameLeaf(PrefixedKey("opt_states", i))])

\* ------------------------------------------------ _tensorstore_prepare
\* state_specs = NoState stands for state_specs=None.
tensorstore_prepare_keep_masked(train_state, state_specs) ==
  LET nested_names == extract_nested_prefix_names(train_state)
      flat_names == tree_leaves(nested_names, never_leaf)
  IN [values |-> tree_leaves(train_state, optax_is_leaf),
      names |-> [i \in 1..Len(flat_names) |-> flat_names[i].name],
      specs |-> <<>>]

tensorstore_prepare(train_state, state_specs) ==
  LET train_state_none ==
        tree_map2("_masked_node_to_none", train_state, train_state)
      state_specs_none ==
        tree_map2("_masked_node_to_none", train_state, state_specs)
      nested_names == extract_nested_prefix_names(train_state)
      flat_names == tree_leaves(nested_names, never_leaf)
  IN [values |-> tree_leaves(train_state_none, never_leaf),
      names |-> [i \in 1..Len(flat_names) |-> flat_names[i].name],
      specs |-> IF state_specs # NoState
                THEN tree_leaves(state_specs_none, never_leaf)
                ELSE <<>>]

\* -------------------------------------------- _tensorstore_reconstruct
\* The loop over the flattened target: acc is [c, out, raised].
RECURSIVE ReconstructLoop(_, _, _, _)
ReconstructLoop(flat_shapes, restored, i, acc) ==
  IF i > Len(flat_shapes) \/ acc.raised # "none" THEN acc
  ELSE IF is_optax_masked_node(flat_shapes[i])
    THEN ReconstructLoop(flat_shapes, restored, i + 1,
           [acc EXCEPT !.out = Append(@, MaskedNode)])
  ELSE IF acc.c + 1 > Len(restored)
    THEN [acc EXCEPT !.raised = "IndexError"]
  ELSE ReconstructLoop(flat_shapes, restored, i + 1,
         [acc EXCEPT !.out = Append(@, restored[acc.c + 1]), !.c = @ + 1])

Raised(e) == [status |-> e, state |-> NoState]
Returned(ts) == [status |-> "ok", state |-> ts]

tensorstore_reconstruct_no_assert(state_global_shapes, restored_train_state) ==
  LET flat == tree_leaves(state_global_shapes, never_leaf)
      treedef == tree_structure(state_global_shapes, never_leaf)
      acc == ReconstructLoop(flat, restored_train_state, 1,
                             [c |-> 0, out |-> <<>>, raised |-> "none"])
  IN IF acc.raised # "none" THEN Raised(acc.raised)
     ELSE Returned(tree_unflatten(treedef, acc.out))

tensorstore_reconstruct_reversed(state_global_shapes, restored_train_state) ==
  LET flat == tree_leaves(state_global_shapes, never_leaf)
      treedef == tree_structure(state_global_shapes, never_leaf)
      n == Len(restored_train_state)
      rev == [i \in 1..n |-> restored_train_state[n + 1 - i]]
      acc == ReconstructLoop(flat, rev, 1,
                             [c |-> 0, out |-> <<>>, raised |-> "none"])
  IN IF acc.raised # "none" THEN Raised(acc.raised)
     ELSE IF acc.c # n THEN Raised("AssertionError")
     ELSE Returned(tree_unflatten(treedef, acc.out))

tensorstore_reconstruct(state_global_shapes, restored_train_state) ==
  LET flat == tree_leaves(state_global_shapes, never_leaf)
      treedef == tree_structure(state_global_shapes, never_leaf)
      acc == ReconstructLoop(flat, restored_train_state, 1,
                             [c |-> 0, out |-> <<>>, raised |-> "none"])
  IN IF acc.raised # "none" THEN Raised(acc.raised)
     ELSE IF acc.c # Len(restored_train_state) THEN Raised("AssertionError")
     ELSE Returned(tree_unflatten(treedef, acc.out))


\* ------------------------------------------------- the storage layer
\* orbax PyTreeCheckpointHandler, the superclass both handlers call: on save
\* one entry per leaf of the item under its parameter name, on restore the
\* value stored under each requested name.
StorageEntries(names, values) ==
  [i \in 1..Len(values) |-> [name |-> names[i], value |-> values[i]]]

\* The names the superclass derives from the item when _param_names is None.
OrbaxKey(prefix, i) == prefix \o "." \o ToString(i - 1)

orbax_param_names(item) ==
  LET nested ==
        TrainState(
          NameLeaf("step"),
          [i \in 1..Len(item.mdl_vars) |-> NameLeaf(OrbaxKey("mdl_vars", i))],
          [i \in 1..Len(item.opt_states) |->
             IF IsJaxLeaf(item.opt_states[i], never_leaf)
             THEN NameLeaf(OrbaxKey("opt_states", i)) ELSE None])
      flat == tree_leaves(nested, never_leaf)
  IN [i \in 1..Len(flat) |-> flat[i].name]

StoredNames(entries) == {entries[i].name : i \in DOMAIN entries}

\* The value stored under a name: the last entry written under it.
StoredValue(entries, name) ==
  LET last == CHOOSE i \in DOMAIN entries :
                /\ entries[i].name = name
                /\ \A j \in DOMAIN entries : entries[j].name = name => j <= i
  IN entries[last].value

\* global_shape=None of ArrayRestoreArgs.
NoShape == 0

\* What the storage layer makes of a stored array under its restore args: the
\* array as saved when global_shape is None, else the stored data padded or
\* truncated to global_shape.
deserialize(value, restore_arg) ==
  IF restore_arg.global_shape = NoShape THEN value
  ELSE [value EXCEPT !.shape = restore_arg.global_shape]

storage_restore(entries, names, restore_args) ==
  IF \E i \in DOMAIN names : names[i] \notin StoredNames(entries)
  THEN [status |-> "FileNotFoundError", values |-> <<>>]
  ELSE [status |-> "ok",
        values |-> [i \in 1..Len(names) |->
                      deserialize(StoredValue(entries, names[i]),
                                  restore_args[i])]]

\* str(pytree_state): the printed structural descriptor.
RECURSIVE JoinSlots(_, _)
JoinSlots(slots, n) ==
  IF n = 0 THEN ""
  ELSE IF n = 1 THEN slots[1]
  ELSE JoinSlots(slots, n - 1) \o ", " \o slots[n]

str_treedef(td) ==
  "PyTreeDef(TrainState(" \o td.step
    \o ", [" \o JoinSlots(td.mdl_vars, Len(td.mdl_vars))
    \o "], [" \o JoinSlots(td.opt_states, Len(td.opt_states)) \o "]))"

\* The aggregate file of a step directory orbax writes, and the name of a
\* legacy checkpoint that is a single file.
StandardAggregateFilename == "checkpoint"
LegacyFilename == "checkpoint_00000001"

\* An empty step directory.  aggregate_file is the name of the aggregate
\* file in it ("" when there is none); legacy_file tells whether the same
\* state also exists as a single-file legacy checkpoint.
NoDirectory ==
  [written |-> FALSE, format |-> "none", ocdbt |-> FALSE, entries |-> <<>>,
   aggregate_file |-> "", str_pytree_state |-> "", item |-> NoState,
   legacy_file |-> FALSE]

\* ------------------------------------------------- PaxCheckpointHandler
\* _param_names: None, or the flattened names of the last call.
NoParamNames == [set |-> FALSE, names |-> <<>>]
ParamNames(names) == [set |-> TRUE, names |-> names]

\* PaxCheckpointHandler(enforce_restore_shape_check=..., use_ocdbt=...).
PaxCheckpointHandler(enforce_restore_shape_check, use_ocdbt) ==
  [class |-> "PaxCheckpointHandler", use_ocdbt |-> use_ocdbt,
   enforce_restore_shape_check |-> enforce_restore_shape_check,
   param_names |-> NoParamNames,
   aggregate_filename |-> StandardAggregateFilename]

\* _get_param_names: the names that were set, else those the superclass
\* derives from the item.
get_param_names(self, item) ==
  IF self.param_names.set THEN self.param_names.names
  ELSE orbax_param_names(item)

\* version = "None" stands for version=None.
\* async_save: what the step directory holds afterwards or the error, the
\* handler afterwards, and the calls made (did).
pax_async_save_names_first(self, item, version) ==
  LET p == tensorstore_prepare(item, NoState)
      after == [self EXCEPT !.param_names =
                  IF self.use_ocdbt THEN NoParamNames ELSE ParamNames(p.names)]
  IN IF version = "None"
     THEN [status |-> "ValueError", dir |-> NoDirectory, self |-> after,
           did |-> <<"_set_param_names">>]
     ELSE [status |-> "ok",
           dir |-> [written |-> TRUE, format |-> "pax",
                    ocdbt |-> self.use_ocdbt,
                    entries |->
                      IF self.use_ocdbt
                      THEN StorageEntries(orbax_param_names(item),
                                          tree_leaves(item, never_leaf))
                      ELSE StorageEntries(p.names, p.values),
                    aggregate_file |->
                      IF self.use_ocdbt THEN StandardAggregateFilename ELSE "",
                    str_pytree_state |-> "", item |-> item,
                    legacy_file |-> FALSE],
           self |-> after,
           did |-> <<"_set_param_names", "super().async_save">>]

pax_async_save(self, item, version) ==
  IF version = "None"
  THEN [status |-> "ValueError", dir |-> NoDirectory, self |-> self,
        did |-> <<>>]
  ELSE IF self.use_ocdbt
    THEN LET after == [self EXCEPT !.param_names = NoParamNames]
         IN [status |-> "ok",
             dir |-> [written |-> TRUE, format |-> "pax", ocdbt |-> TRUE,
                      entries |-> StorageEntries(get_param_names(after, item),
                                                 tree_leaves(item, never_leaf)),
                      aggregate_file |-> StandardAggregateFilename,
                      str_pytree_state |-> "", item |-> item,
                      legacy_file |-> FALSE],
             self |-> after,
             did |-> <<"_set_param_names", "super().async_save">>]
  ELSE LET p == tensorstore_prepare(item, NoState)
           after == [self EXCEPT !.param_names = ParamNames(p.names)]
       IN [status |-> "ok",
           dir |-> [written |-> TRUE, format |-> "pax", ocdbt |-> FALSE,
                    entries |-> StorageEntries(get_param_names(after, p.values),
                                               p.values),
                    aggregate_file |-> "", str_pytree_state |-> "",
                    item |-> item, legacy_file |-> FALSE],
           self |-> after,
           did |-> <<"_tensorstore_prepare", "_set_param_names",
                     "super().async_save">>]

\* What a restore returns: the state or the error with its message, the
\* names read from storage, the handler afterwards and the calls made.
RestoreResult(self, status, state, read, did) ==
  [status |-> status, state |-> state, read |-> read, warned |-> FALSE,
   message |-> <<>>, self |-> self, did |-> did]

\* create_restore_args: global_shape is None under the strict shape check,
\* else the shape of the target.
create_restore_args_as_saved(self, pspec, shape_struct) ==
  [mesh_axes |-> pspec, global_shape |-> NoShape]

create_restore_args(self, pspec, shape_struct) ==
  [mesh_axes |-> pspec,
   global_shape |-> IF self.enforce_restore_shape_check THEN NoShape
                    ELSE shape_struct.shape]

\* _check_restored_shapes over the leaves of restored and expected: the
\* ValueError of the first leaf whose shapes differ, with its message.
check_restored_shapes_silent(restored, expected) ==
  [status |-> "ok", message |-> <<>>]

check_restored_shapes(restored, expected) ==
  LET bad == {i \in DOMAIN restored : restored[i].shape # expected[i].shape}
      a == restored[CHOOSE i \in bad : \A j \in bad : i <= j]
      b == expected[CHOOSE i \in bad : \A j \in bad : i <= j]
  IN IF bad = {} THEN [status |-> "ok", message |-> <<>>]
     ELSE [status |-> "ValueError",
           message |-> <<"Restored parameter shape mismatch:",
                         ToString(a.shape), "(checkpoint) vs.",
                         ToString(b.shape), "(expected).">>]

\* restore; specs = NoState stands for specs=None.
pax_restore_by_handler_flag(self, dir, item, specs, version) ==
  LET is_ocdbt_checkpoint == self.use_ocdbt
      p == tensorstore_prepare(item, specs)
      reference_train_state ==
        IF is_ocdbt_checkpoint THEN tree_leaves(item, never_leaf) ELSE p.values
      reference_state_specs ==
        IF is_ocdbt_checkpoint THEN tree_leaves(specs, never_leaf) ELSE p.specs
      after == IF is_ocdbt_checkpoint THEN self
               ELSE [self EXCEPT !.param_names = ParamNames(p.names)]
      did == IF is_ocdbt_checkpoint THEN <<"is_ocdbt_checkpoint">>
             ELSE <<"is_ocdbt_checkpoint", "_tensorstore_prepare",
                    "_set_param_names">>
      names == get_param_names(after, item)
      restore_args ==
        [i \in 1..Len(reference_train_state) |->
           create_restore_args(self, reference_state_specs[i],
                               reference_train_state[i])]
      restored_train_state == storage_restore(dir.entries, names, restore_args)
      checked == check_restored_shapes(restored_train_state.values,
                                       reference_train_state)
      r == IF is_ocdbt_checkpoint
           THEN Returned(tree_unflatten(tree_structure(item, never_leaf),
                                        restored_train_state.values))
           ELSE tensorstore_reconstruct(item, restored_train_state.values)
  IN IF version = "None"
     THEN RestoreResult(self, "ValueError", NoState, <<>>, <<>>)
     ELSE IF is_ocdbt_checkpoint /\ ~self.use_ocdbt
       THEN RestoreResult(self, "ValueError", NoState, <<>>,
                          <<"is_ocdbt_checkpoint">>)
     ELSE IF specs = NoState \/ Len(names) # Len(reference_train_state)
       THEN RestoreResult(after, "ValueError", NoState, <<>>, did)
     ELSE IF restored_train_state.status # "ok"
       THEN RestoreResult(after, restored_train_state.status, NoState, names,
                          Append(did, "super().restore"))
     ELSE IF self.enforce_restore_shape_check /\ checked.status # "ok"
       THEN [RestoreResult(after, checked.status, NoState, names,
                           Append(did, "super().restore"))
               EXCEPT !.message = checked.message]
     ELSE RestoreResult(after, r.status, r.state, names,
                        Append(did, "super().restore"))

pax_restore(self, dir, item, specs, version) ==
  LET is_ocdbt_checkpoint == dir.ocdbt
      p == tensorstore_prepare(item, specs)
      reference_train_state ==
        IF is_ocdbt_checkpoint THEN tree_leaves(item, never_leaf) ELSE p.values
      reference_state_specs ==
        IF is_ocdbt_checkpoint THEN tree_leaves(specs, never_leaf) ELSE p.specs
      after == IF is_ocdbt_checkpoint THEN self
               ELSE [self EXCEPT !.param_names = ParamNames(p.names)]
      did == IF is_ocdbt_checkpoint THEN <<"is_ocdbt_checkpoint">>
             ELSE <<"is_ocdbt_checkpoint", "_tensorstore_prepare",
                    "_set_param_names">>
      names == get_param_names(after, item)
      restore_args ==
        [i \in 1..Len(reference_train_state) |->
           create_restore_args(self, reference_state_specs[i],
                               reference_train_state[i])]
      restored_train_state == storage_restore(dir.entries, names, restore_args)
      checked == check_restored_shapes(restored_train_state.values,
                                       reference_train_state)
      r == IF is_ocdbt_checkpoint
           THEN Returned(tree_unflatten(tree_structure(item, never_leaf),
                                        restored_train_state.values))
           ELSE tensorstore_reconstruct(item, restored_train_state.values)
  IN IF version = "None"
     THEN RestoreResult(self, "ValueError", NoState, <<>>, <<>>)
     ELSE IF is_ocdbt_checkpoint /\ ~self.use_ocdbt
       THEN RestoreResult(self, "ValueError", NoState, <<>>,
                          <<"is_ocdbt_checkpoint">>)
     \* tree_map(create_restore_args, None, reference_train_state) and a
     \* names tree that is not that of the item do not match the item.
     ELSE IF specs = NoState \/ Len(names) # Len(reference_train_state)
       THEN RestoreResult(after, "ValueError", NoState, <<>>, did)
     ELSE IF restored_train_state.status # "ok"
       THEN RestoreResult(after, restored_train_state.status, NoState, names,
                          Append(did, "super().restore"))
     ELSE IF self.enforce_restore_shape_check /\ checked.status # "ok"
       THEN [RestoreResult(after, checked.status, NoState, names,
                           Append(did, "super().restore"))
               EXCEPT !.message = checked.message]
     ELSE RestoreResult(after, r.status, r.state, names,
                        Append(did, "super().restore"))

pax_structure_of_directory(self, dir) ==
  [names |-> [i \in 1..Len(dir.entries) |-> dir.entries[i].name],
   did |-> <<"leaf_placeholder">>]

\* structure: the names the result has a placeholder for, and where they
\* come from.  The aggregate file of an OCDBT save holds the names of the
\* saved item; without it the names are the handler's _param_names, none
\* when they are unset.
pax_structure(self, dir) ==
  IF self.use_ocdbt /\ dir.aggregate_file = self.aggregate_filename
  THEN [names |-> [i \in 1..Len(dir.entries) |-> dir.entries[i].name],
        did |-> <<"super().structure">>]
  ELSE [names |-> self.param_names.names, did |-> <<"leaf_placeholder">>]

\* ------------------------------------------------ FlaxCheckpointHandler
FlaxCheckpointHandler ==
  [class |-> "FlaxCheckpointHandler", use_ocdbt |-> FALSE,
   enforce_restore_shape_check |-> FALSE, param_names |-> NoParamNames,
   aggregate_filename |-> StandardAggregateFilename]

FlatKey(i) == "flattened_state_" \o ToString(i - 1)

flax_async_save_keep_masked(self, item, version) ==
  LET flattened_state == TreeSeq(item)
      pytree_state == tree_structure(item, bprop_is_leaf)
  IN IF version = "None"
     THEN [status |-> "ValueError", dir |-> NoDirectory, self |-> self,
           did |-> <<>>]
     ELSE [status |-> "ok",
           dir |-> [written |-> TRUE, format |-> "flax", ocdbt |-> FALSE,
                    entries |-> [i \in 1..Len(flattened_state) |->
                                   [name |-> FlatKey(i),
                                    value |-> flattened_state[i]]],
                    aggregate_file |-> self.aggregate_filename,
                    str_pytree_state |-> str_treedef(pytree_state),
                    item |-> item, legacy_file |-> FALSE],
           self |-> self,
           did |-> <<"tree_flatten", "super().async_save">>]

flax_async_save(self, item, version) ==
  LET flattened_state == tree_leaves(item, bprop_is_leaf)
      pytree_state == tree_structure(item, bprop_is_leaf)
  IN IF version = "None"
     THEN [status |-> "ValueError", dir |-> NoDirectory, self |-> self,
           did |-> <<>>]
     ELSE [status |-> "ok",
           dir |-> [written |-> TRUE, format |-> "flax", ocdbt |-> FALSE,
                    entries |-> [i \in 1..Len(flattened_state) |->
                                   [name |-> FlatKey(i),
                                    value |-> flattened_state[i]]],
                    aggregate_file |-> self.aggregate_filename,
                    str_pytree_state |-> str_treedef(pytree_state),
                    item |-> item, legacy_file |-> FALSE],
           self |-> self,
           did |-> <<"tree_flatten", "super().async_save">>]

\* restore reads the aggregate file named self.aggregate_filename; when the
\* directory holds no such file the superclass hands the input back and
\* restore returns None.
flax_restore_strict_signature(self, dir, item, version) ==
  LET pytree_state == tree_structure(item, bprop_is_leaf)
      str_pytree_state == str_treedef(pytree_state)
      restored_state == [i \in 1..Len(dir.entries) |-> dir.entries[i].value]
      read == [i \in 1..Len(dir.entries) |-> dir.entries[i].name]
      did == <<"tree_flatten", "super().restore">>
      restored == tree_unflatten(pytree_state, restored_state)
  IN IF version = "None"
     THEN RestoreResult(self, "ValueError", NoState, <<>>, <<>>)
     ELSE IF ~dir.written \/ dir.aggregate_file # self.aggregate_filename
       THEN RestoreResult(self, "None", NoState, <<>>, did)
     ELSE IF dir.str_pytree_state # str_pytree_state
               \/ Len(restored_state) # NumLeaves(pytree_state)
       THEN RestoreResult(self, "ValueError", NoState, read, did)
     ELSE RestoreResult(self, "ok",
                        tree_map2("keep_target_mask", item, restored),
                        read, Append(did, "tree_unflatten"))

flax_restore(self, dir, item, version) ==
  LET pytree_state == tree_structure(item, bprop_is_leaf)
      str_pytree_state == str_treedef(pytree_state)
      restored_state == [i \in 1..Len(dir.entries) |-> dir.entries[i].value]
      read == [i \in 1..Len(dir.entries) |-> dir.entries[i].name]
      warned == dir.str_pytree_state # str_pytree_state
      did == <<"tree_flatten", "super().restore">>
      restored == tree_unflatten(pytree_state, restored_state)
  IN IF version = "None"
     THEN RestoreResult(self, "ValueError", NoState, <<>>, <<>>)
     ELSE IF ~dir.written \/ dir.aggregate_file # self.aggregate_filename
       THEN RestoreResult(self, "None", NoState, <<>>, did)
     ELSE IF Len(restored_state) # NumLeaves(pytree_state)
       THEN [RestoreResult(self, "ValueError", NoState, read, did)
               EXCEPT !.warned = warned]
     ELSE [RestoreResult(self, "ok",
                         tree_map2("keep_target_mask", item, restored),
                         read, Append(did, "tree_unflatten"))
             EXCEPT !.warned = warned]

\* ----------------------------------------------------- FlaxCheckpointer
\* FlaxCheckpointer.restore on the handler of the checkpointer: is_file
\* tells whether the path is a single-file legacy checkpoint, whose parent
\* directory then holds the state under the name of that file.  The
\* aggregate filename is reset on the way out, which a raised error skips.
\* The last statements of FlaxCheckpointer.restore: the handler of a restore
\* that returned gets its aggregate filename back.
reset_aggregate_filename(result, original_aggregate_filename) ==
  IF result.status \notin {"ok", "None"} THEN result
  ELSE [result EXCEPT !.self.aggregate_filename = original_aggregate_filename]

flax_checkpointer_restore(self, dir, is_file, item, version) ==
  LET original_aggregate_filename == self.aggregate_filename
      probing == IF is_file
                 THEN [self EXCEPT !.aggregate_filename = LegacyFilename]
                 ELSE self
      directory_seen == IF is_file
                        THEN [dir EXCEPT !.aggregate_file = LegacyFilename]
                        ELSE dir
      result == flax_restore(probing, directory_seen, item, version)
  IN IF self.class # "FlaxCheckpointHandler"
     THEN RestoreResult(self, "ValueError", NoState, <<>>, <<>>)
     ELSE reset_aggregate_filename(result, original_aggregate_filename)

\* ------------------------------------------------------------ variables
VARIABLES
  call,        \* SpecTree: the last application of a pure function
  directory,   \* SpecHandler: the step directory a handler writes and reads
  outcome,     \* SpecHandler: the last handler call and what it returned
  handler,     \* SpecHandler: the handler object of the checkpointer in use
  cfg,         \* Spec: checkpoint_type and tensorstore_use_ocdbt of the run
  dir_exists,  \* Spec: whether checkpoint_dir exists
  committed,   \* Spec: the committed step directories, by step
  last_commit, \* Spec: the step of the most recent commit
  tmp,         \* Spec: the temporary directory of the write in flight
  api,         \* Spec: the last top-level call and what it returned
  train,       \* SpecTrain: the train program and its inflight queue
  eval,        \* SpecEval: the processes of one eval program
  files,       \* SpecEval: the eval output files written so far
  input        \* SpecInputCheckpoint: the input checkpoint directory

treeVars == <<call>>
handlerVars == <<directory, outcome, handler>>
managerVars == <<cfg, dir_exists, committed, last_commit, tmp, api>>
trainVars == <<train>>
evalVars == <<eval, files>>
inputVars == <<input>>
programVars == <<trainVars, evalVars, inputVars>>
vars == <<call, directory, outcome, handler, cfg, dir_exists, committed,
          last_commit, tmp, api, train, eval, files, input>>

\* ------------------------------------------------------------ input sets
ShardedLeaves == Arrays \cup {MaskedNode}

StatesOver(steps, leaves) ==
  {TrainState(Array(k), <<m>>, o) :
     k \in steps, m \in Arrays, o \in [1..MaxOpt -> leaves]}

TargetsOver(leaves) ==
  {get_shape_dtype_struct(ts) : ts \in StatesOver({1}, leaves)}

\* The TrainStates the handlers save: the model variable in one of the
\* shapes `dims`, optimizer slot i either masked by one of `masks` or the
\* array of that slot.
SlotArray(i) == Array(((i - 1) % NumVals) + 1)

ShapedStatesOver(dims, masks) ==
  {TrainState(Array(1), <<ArrayOfShape(1, s)>>, o) :
     s \in dims,
     o \in {f \in [1..MaxOpt -> Arrays \cup masks] :
              \A i \in 1..MaxOpt :
                f[i].kind = "Array" => f[i] = SlotArray(i)}}

ShapedTargetsOver(dims, masks) ==
  {get_shape_dtype_struct(ts) : ts \in ShapedStatesOver(dims, masks)}

\* The partition specs of a TrainState: one PartitionSpec per leaf.
SpecOf(x) == IF is_optax_masked_node(x) THEN x ELSE PartitionSpec

PartitionSpecsOf(ts) ==
  TrainState(SpecOf(ts.step),
             [i \in 1..Len(ts.mdl_vars) |-> SpecOf(ts.mdl_vars[i])],
             [i \in 1..Len(ts.opt_states) |-> SpecOf(ts.opt_states[i])])

\* Flat value lists as the storage layer returns them: arrays only.
FlatLists == UNION {[1..n -> Arrays] : n \in 0..(MaxOpt + 3)}

Range(f) == {f[i] : i \in DOMAIN f}

MaskedPositions(ts) ==
  {p \in 1..Len(TreeSeq(ts)) : is_optax_masked_node(TreeSeq(ts)[p])}

NumUnmasked(ts) == Len(TreeSeq(ts)) - Cardinality(MaskedPositions(ts))

\* ------------------------------------------------------------- SpecTree
NoCall ==
  [fn |-> "none", item |-> NoState, target |-> NoState, restored |-> <<>>,
   values |-> <<>>, names |-> <<>>, status |-> "none", state |-> NoState,
   specs |-> NoState, flat_specs |-> <<>>]

NoOutcome ==
  [op |-> "none", handler |-> "none", use_ocdbt |-> FALSE, item |-> NoState,
   specs |-> NoState, version |-> "None", is_file |-> FALSE,
   status |-> "none", state |-> NoState, read |-> <<>>, warned |-> FALSE,
   message |-> <<>>, did |-> <<>>, before |-> FlaxCheckpointHandler]

NoStep == 0

NoTmp ==
  [exists |-> FALSE, writing |-> FALSE, step |-> NoStep, dir |-> NoDirectory,
   written |-> 0, existed |-> FALSE, latest_before |-> NoStep]

NoApi ==
  [op |-> "none", step |-> NoStep, overwrite |-> FALSE, item |-> NoState,
   status |-> "none", state |-> NoState, io |-> <<>>, warned |-> FALSE,
   given |-> NoState, unpadded |-> NoState]

\* The programs of paxml/programs.py and the input checkpoint before any call.
NoTrain ==
  [max_inflight_steps |-> 0, tracking |-> FALSE, items |-> <<>>, step |-> 0,
   finished |-> 0, op |-> "none", full |-> FALSE, oldest |-> 0,
   waited |-> <<>>, blocked |-> FALSE, added |-> <<>>, drained |-> <<>>]

NoEval ==
  [process_count |-> 1, pax_only_aggregate_summaries |-> FALSE, step |-> 0,
   phase |-> "none", load_failed |-> FALSE, loaded |-> <<>>,
   success |-> <<>>, can_load |-> <<>>, ran |-> <<>>,
   scoring_outputs |-> <<>>, logged |-> <<>>, raised |-> <<>>,
   eval_num_steps |-> -1, num_batches |-> 1, pos |-> <<>>, state |-> 0,
   output |-> <<>>, reads |-> <<>>, resets |-> <<>>, summaries |-> <<>>]

NoInput ==
  [process_count |-> 1, exists |-> FALSE, saved |-> {}, op |-> "none",
   process |-> 0, item |-> "None", status |-> "none", path |-> <<>>,
   did |-> <<>>, state |-> 0]

ProgramIdle ==
  /\ train = NoTrain
  /\ eval = NoEval
  /\ files = {}
  /\ input = NoInput

ManagerIdle ==
  /\ cfg = [checkpoint_type |-> "FLAX", tensorstore_use_ocdbt |-> FALSE,
            async |-> FALSE, version |-> 1]
  /\ dir_exists = FALSE
  /\ committed = [k \in 1..MaxStep |-> NoDirectory]
  /\ last_commit = NoStep
  /\ tmp = NoTmp
  /\ api = NoApi

TreeInit ==
  /\ call = NoCall
  /\ directory = NoDirectory
  /\ outcome = NoOutcome
  /\ handler = FlaxCheckpointHandler
  /\ ManagerIdle
  /\ ProgramIdle

\* The partition specs of a TrainState with a different spec at every
\* position: the spec of position p carries p.
PositionSpecsOf(ts) ==
  TrainState(
    [SpecOf(ts.step) EXCEPT !.data = 1],
    [i \in 1..Len(ts.mdl_vars) |->
       [SpecOf(ts.mdl_vars[i]) EXCEPT !.data = 1 + i]],
    [i \in 1..Len(ts.opt_states) |->
       IF is_optax_masked_node(ts.opt_states[i]) THEN ts.opt_states[i]
       ELSE [PartitionSpec EXCEPT !.data = 1 + Len(ts.mdl_vars) + i]])

\* _tensorstore_prepare on the save path (an item of arrays, no specs) and
\* on the restore path (the target of the item, with or without specs).
TensorstorePrepare ==
  \E saved \in StatesOver({1}, ShardedLeaves), restoring \in BOOLEAN :
    \E with_specs \in {FALSE, restoring} :
      LET item == IF restoring THEN get_shape_dtype_struct(saved) ELSE saved
          state_specs == IF with_specs THEN PositionSpecsOf(item) ELSE NoState
          p == tensorstore_prepare(item, state_specs)
      IN /\ call.fn = "none"
         /\ call' = [NoCall EXCEPT !.fn = "prepare", !.item = item,
                       !.values = p.values, !.names = p.names,
                       !.status = "ok", !.specs = state_specs,
                       !.flat_specs = p.specs]
         /\ UNCHANGED <<handlerVars, managerVars, programVars>>

TensorstoreReconstruct ==
  \E target \in TargetsOver(ShardedLeaves), restored \in FlatLists :
    LET r == tensorstore_reconstruct(target, restored)
    IN /\ call.fn = "none"
       /\ call' = [NoCall EXCEPT !.fn = "reconstruct", !.target = target,
                     !.restored = restored, !.status = r.status,
                     !.state = r.state]
       /\ UNCHANGED <<handlerVars, managerVars, programVars>>

TreeNext == TensorstorePrepare \/ TensorstoreReconstruct

SpecTree == TreeInit /\ [][TreeNext]_vars

\* C6: _tensorstore_prepare of a TrainState with N leaves of which M are
\* masked returns exactly N - M flattened values and exactly N - M flattened
\* names; no value is a MaskedNode and no name is that of a masked leaf.
C6_MaskedLeavesExcluded ==
  call.fn = "prepare" =>
    /\ Len(call.values) = NumUnmasked(call.item)
    /\ Len(call.names) = NumUnmasked(call.item)
    /\ \A i \in DOMAIN call.values : ~is_optax_masked_node(call.values[i])
    /\ \A j \in DOMAIN call.item.opt_states :
         is_optax_masked_node(call.item.opt_states[j])
           => PrefixedKey("opt_states", j) \notin Range(call.names)

C6_Witness ==
  /\ call.fn = "prepare"
  /\ is_optax_masked_node(call.item.opt_states[1])
  /\ ~is_optax_masked_node(call.item.opt_states[2])
  /\ Len(call.values) = 3

\* C7: a successful _tensorstore_reconstruct has a MaskedNode at exactly the
\* masked positions of the target, whatever flat values it was given, and
\* its other positions hold the flat values in their order.
C7_MaskedLeavesReinserted ==
  (call.fn = "reconstruct" /\ call.status = "ok") =>
    /\ MaskedPositions(call.state) = MaskedPositions(call.target)
    /\ Len(TreeSeq(call.state)) = Len(TreeSeq(call.target))
    /\ SelectSeq(TreeSeq(call.state), LAMBDA x : ~is_optax_masked_node(x))
         = call.restored

C7_Witness ==
  /\ call.fn = "reconstruct"
  /\ call.status = "ok"
  /\ is_optax_masked_node(call.target.opt_states[1])
  /\ call.state.opt_states = <<MaskedNode, Array(2)>>
  /\ call.state.mdl_vars = <<Array(1)>>

\* C9: when the number of flat values differs from the number of unmasked
\* leaves of the target, _tensorstore_reconstruct raises and returns no
\* state.
C9_CountMismatchRaises ==
  (call.fn = "reconstruct" /\ Len(call.restored) # NumUnmasked(call.target)) =>
    /\ call.status \in {"IndexError", "AssertionError"}
    /\ call.state = NoState

C9_Witness ==
  /\ call.fn = "reconstruct"
  /\ Len(call.restored) > NumUnmasked(call.target)
  /\ Cardinality(MaskedPositions(call.target)) = 1
  /\ call.status = "AssertionError"


\* ---------------------------------------------------------- SpecHandler
Version == "1.1"
Versions == {Version, "None"}

\* The handler objects get_checkpointer constructs.
Handlers ==
  {PaxCheckpointHandler(e, o) : e \in BOOLEAN, o \in BOOLEAN}
    \cup {FlaxCheckpointHandler}

HandlerInit ==
  /\ call = NoCall
  /\ directory = NoDirectory
  /\ outcome = NoOutcome
  /\ handler \in Handlers
  /\ ManagerIdle
  /\ ProgramIdle

\* What a call leaves in `outcome`.
SaveOutcome(name, before, item, version, r) ==
  [NoOutcome EXCEPT !.op = "save", !.handler = name,
     !.use_ocdbt = before.use_ocdbt, !.item = item, !.version = version,
     !.status = r.status, !.did = r.did, !.before = before]

RestoreOutcome(name, before, item, specs, version, is_file, r) ==
  [op |-> "restore", handler |-> name, use_ocdbt |-> before.use_ocdbt,
   item |-> item, specs |-> specs, version |-> version, is_file |-> is_file,
   status |-> r.status, state |-> r.state, read |-> r.read,
   warned |-> r.warned, message |-> r.message, did |-> r.did,
   before |-> before]

PaxSave ==
  \E item \in ShapedStatesOver(Dims, {MaskedNode}), version \in Versions :
    LET r == pax_async_save(handler, item, version)
    IN /\ handler.class = "PaxCheckpointHandler"
       /\ ~directory.written
       /\ outcome.op \in {"none", "save"}
       /\ directory' = r.dir
       /\ handler' = r.self
       /\ outcome' = SaveOutcome("pax", handler, item, version, r)
       /\ UNCHANGED <<treeVars, programVars, managerVars>>

FlaxSave ==
  \E item \in ShapedStatesOver({1}, {MaskedNode, BpropMaskedNode}),
     version \in Versions :
    LET r == flax_async_save(handler, item, version)
    IN /\ handler.class = "FlaxCheckpointHandler"
       /\ ~directory.written
       /\ outcome.op \in {"none", "save"}
       /\ directory' = r.dir
       /\ handler' = r.self
       /\ outcome' = SaveOutcome("flax", handler, item, version, r)
       /\ UNCHANGED <<treeVars, programVars, managerVars>>

\* The state the legacy writer saved as one file is also there as a
\* single-file checkpoint.
LegacyFile ==
  /\ directory.format = "flax"
  /\ ~directory.legacy_file
  /\ outcome.op = "save"
  /\ directory' = [directory EXCEPT !.legacy_file = TRUE]
  /\ UNCHANGED <<treeVars, programVars, outcome, handler, managerVars>>

\* Another process constructs its own handler for the directory.
Construct ==
  /\ directory.written
  /\ outcome.op \in {"save", "returned"}
  /\ \E h \in Handlers :
       /\ h.class = handler.class
       /\ h # handler
       /\ handler' = h
  /\ outcome' = [NoOutcome EXCEPT !.op = "construct"]
  /\ UNCHANGED <<treeVars, programVars, directory, managerVars>>

PaxRestore ==
  /\ handler.class = "PaxCheckpointHandler"
  /\ directory.format = "pax"
  /\ outcome.op \in {"save", "construct", "returned"}
  /\ \E item \in ShapedTargetsOver(Dims, {MaskedNode}), version \in Versions :
       \E specs \in {PartitionSpecsOf(item), NoState} :
         LET r == pax_restore(handler, directory, item, specs, version)
         IN /\ outcome' = RestoreOutcome("pax", handler, item, specs, version,
                                         FALSE, r)
            /\ handler' = r.self
  /\ UNCHANGED <<call, programVars, directory, managerVars>>

FlaxRestore ==
  /\ handler.class = "FlaxCheckpointHandler"
  /\ directory.format = "flax"
  /\ outcome.op \in {"save", "construct", "returned"}
  /\ \E item \in ShapedTargetsOver({1}, {MaskedNode, BpropMaskedNode}),
        version \in Versions :
       \E is_file \in {FALSE, directory.legacy_file} :
         LET r == flax_checkpointer_restore(handler, directory, is_file, item,
                                            version)
         IN /\ outcome' = RestoreOutcome("flax", handler, item, NoState,
                                         version, is_file, r)
            /\ handler' = r.self
  /\ UNCHANGED <<call, programVars, directory, managerVars>>

PaxStructure ==
  /\ handler.class = "PaxCheckpointHandler"
  /\ directory.format = "pax"
  /\ outcome.op \in {"save", "construct", "returned"}
  /\ LET r == pax_structure(handler, directory)
     IN outcome' = [NoOutcome EXCEPT !.op = "structure", !.handler = "pax",
                      !.use_ocdbt = handler.use_ocdbt, !.status = "ok",
                      !.read = r.names, !.did = r.did, !.before = handler]
  /\ UNCHANGED <<treeVars, programVars, directory, handler, managerVars>>

\* The restore has returned or raised; the handler stays as it left it.
Returns ==
  /\ outcome.op \in {"restore", "structure"}
  /\ outcome' = [NoOutcome EXCEPT !.op = "returned"]
  /\ UNCHANGED <<treeVars, programVars, directory, handler, managerVars>>

HandlerNext ==
  \/ PaxSave
  \/ FlaxSave
  \/ LegacyFile
  \/ Construct
  \/ PaxRestore
  \/ FlaxRestore
  \/ PaxStructure
  \/ Returns

SpecHandler == HandlerInit /\ [][HandlerNext]_vars

\* The name under which position p of a TrainState is stored, in either
\* naming of the sharded handler.
PositionNames(ts, p) ==
  IF p = 1 THEN {"step"}
  ELSE IF p <= 1 + Len(ts.mdl_vars)
    THEN {PrefixedKey("mdl_vars", p - 1), OrbaxKey("mdl_vars", p - 1)}
  ELSE {PrefixedKey("opt_states", p - 1 - Len(ts.mdl_vars)),
        OrbaxKey("opt_states", p - 1 - Len(ts.mdl_vars))}

\* C1: round trip through the sharded handler: a TrainState saved and then
\* restored by a handler of the same storage mode, against a target of the
\* same structure and the same masked positions (with its partition specs
\* and a version), comes back equal leaf for leaf, masked positions as
\* MaskedNode and the others with the saved value.
C1_ShardedRoundTrip ==
  (/\ outcome.op = "restore"
   /\ outcome.handler = "pax"
   /\ outcome.use_ocdbt = directory.ocdbt
   /\ outcome.version # "None"
   /\ outcome.specs = PartitionSpecsOf(outcome.item)
   /\ outcome.item = get_shape_dtype_struct(directory.item))
  => /\ outcome.status = "ok"
     /\ outcome.state = directory.item

C1_Witness ==
  /\ outcome.op = "restore"
  /\ outcome.handler = "pax"
  /\ outcome.version # "None"
  /\ outcome.specs = PartitionSpecsOf(outcome.item)
  /\ ~outcome.use_ocdbt
  /\ ~directory.ocdbt
  /\ outcome.item = get_shape_dtype_struct(directory.item)
  /\ directory.item.opt_states = <<MaskedNode, Array(2)>>
  /\ directory.item.mdl_vars = <<ArrayOfShape(1, 2)>>
  /\ outcome.state = directory.item

\* C8 (the claim as stated): a sharded restore against a target whose masked
\* positions differ from those of the saved tree fails with an error.
C8_MaskMismatchFails ==
  (/\ outcome.op = "restore"
   /\ outcome.handler = "pax"
   /\ MaskedPositions(outcome.item) # MaskedPositions(directory.item))
  => outcome.status # "ok"

\* C10 (the claim as stated): under every handler and storage mode no masked
\* leaf, optax or bprop, is a data entry of the directory, and no restore
\* reads an entry for a position its target masks.
C10_NoMaskedLeafStored ==
  /\ \A i \in DOMAIN directory.entries :
       ~is_any_masked_node(directory.entries[i].value)
  /\ (outcome.op = "restore" /\ outcome.handler = "flax") =>
       Len(outcome.read)
         = Len(SelectSeq(TreeSeq(outcome.item),
                         LAMBDA x : ~is_any_masked_node(x)))

\* C10 (amended): no optax MaskedNode is ever a data entry of the directory
\* or read on restore, under the sharded handler in both modes and under the
\* legacy handler; every entry the sharded handler writes is an unmasked
\* leaf of the item and every name it reads is that of an unmasked position
\* of the target.  The legacy handler keeps bprop-masked leaves as entries.
C10_NoOptaxMaskedLeafStored ==
  /\ \A i \in DOMAIN directory.entries :
       ~is_optax_masked_node(directory.entries[i].value)
  /\ directory.written =>
       Len(directory.entries) = NumUnmasked(directory.item)
  /\ (outcome.op = "restore" /\ outcome.handler = "pax") =>
       /\ Len(outcome.read) <= NumUnmasked(outcome.item)
       /\ \A p \in MaskedPositions(outcome.item) :
            PositionNames(outcome.item, p) \cap Range(outcome.read) = {}
  /\ (outcome.op = "restore" /\ outcome.handler = "flax"
        /\ outcome.status = "ok") =>
       Len(outcome.read) = NumUnmasked(outcome.item)

C10_Witness ==
  /\ directory.format = "flax"
  /\ directory.item.opt_states = <<MaskedNode, BpropMaskedNode>>
  /\ Len(directory.entries) = 3
  /\ outcome.op = "restore"
  /\ outcome.item.opt_states = <<MaskedNode, BpropMaskedNode>>
  /\ outcome.status = "ok"

\* A sharded restore that is given a version and the partition specs of its
\* target, by a handler that reads the storage mode of the directory, against
\* a target masked where the saved tree is.
ShardedRestoreOfSavedTree ==
  /\ outcome.op = "restore"
  /\ outcome.handler = "pax"
  /\ directory.ocdbt => outcome.use_ocdbt
  /\ outcome.version # "None"
  /\ outcome.specs = PartitionSpecsOf(outcome.item)
  /\ MaskedPositions(outcome.item) = MaskedPositions(directory.item)

\* The positions at which the target's shape is not the shape saved.
ShapeMismatches ==
  {p \in 1..Len(TreeSeq(outcome.item)) :
     TreeSeq(outcome.item)[p].shape # TreeSeq(directory.item)[p].shape}

C12_MismatchNamesLeafAndShapes ==
  (ShardedRestoreOfSavedTree /\ outcome.before.enforce_restore_shape_check)
  => IF ShapeMismatches = {}
     THEN outcome.status = "ok"
     ELSE /\ outcome.status = "ValueError"
          /\ outcome.state = NoState
          /\ \E p \in ShapeMismatches :
               /\ PositionNames(outcome.item, p) \cap Range(outcome.message)
                    # {}
               /\ ToString(TreeSeq(directory.item)[p].shape)
                    \in Range(outcome.message)
               /\ ToString(TreeSeq(outcome.item)[p].shape)
                    \in Range(outcome.message)

\* C12 (amended): with enforce_restore_shape_check=True a leaf whose stored
\* shape differs from the expected one makes restore fail with a ValueError
\* whose message gives the stored and the expected shape of the first such
\* leaf (and no name of a leaf), and no state is returned; when every shape
\* matches, restore succeeds with the saved state.
C12_MismatchNamesBothShapes ==
  (ShardedRestoreOfSavedTree /\ outcome.before.enforce_restore_shape_check)
  => IF ShapeMismatches = {}
     THEN /\ outcome.status = "ok"
          /\ outcome.state = directory.item
     ELSE LET p == CHOOSE q \in ShapeMismatches :
                     \A o \in ShapeMismatches : q <= o
          IN /\ outcome.status = "ValueError"
             /\ outcome.state = NoState
             /\ outcome.message[2] = ToString(TreeSeq(directory.item)[p].shape)
             /\ outcome.message[4] = ToString(TreeSeq(outcome.item)[p].shape)
             /\ \A q \in 1..Len(TreeSeq(outcome.item)) :
                  PositionNames(outcome.item, q) \cap Range(outcome.message)
                    = {}

C12_Witness ==
  /\ ShardedRestoreOfSavedTree
  /\ outcome.before.enforce_restore_shape_check
  /\ directory.item.mdl_vars = <<ArrayOfShape(1, 2)>>
  /\ outcome.item.mdl_vars = <<ShapeDtypeStructOf(1)>>
  /\ outcome.status = "ValueError"
  /\ outcome.state = NoState
  /\ outcome.message[2] = "2"
  /\ outcome.message[4] = "1"

\* The handler as the call of `outcome` received it: FlaxCheckpointer.restore
\* has pointed it at the file of a single-file checkpoint by then.
HandlerAtCall ==
  IF outcome.handler = "flax" /\ outcome.op = "restore" /\ outcome.is_file
  THEN [outcome.before EXCEPT !.aggregate_filename = LegacyFilename]
  ELSE outcome.before

\* C13: the sharded and the legacy handler reject every save and every
\* restore whose version is absent: the call raises before any flattening,
\* any change of the handler and any storage access, and nothing is written
\* or returned.
C13_VersionRequired ==
  (outcome.op \in {"save", "restore"} /\ outcome.version = "None")
  => /\ outcome.status = "ValueError"
     /\ outcome.did = <<>>
     /\ outcome.read = <<>>
     /\ outcome.state = NoState
     /\ handler = HandlerAtCall
     /\ outcome.op = "save" => directory = NoDirectory

C13_Witness ==
  /\ outcome.op = "save"
  /\ outcome.handler = "pax"
  /\ outcome.version = "None"
  /\ outcome.status = "ValueError"
  /\ handler.param_names = NoParamNames
  /\ ~directory.written

\* The leaves the legacy handler flattens a tree to: every position but
\* those holding an optax MaskedNode, which the treedef keeps.
LegacyLeavesOf(ts) ==
  SelectSeq(TreeSeq(ts), LAMBDA x : ~is_optax_masked_node(x))

\* C15: a successful legacy restore holds the target's masked sentinel at
\* every position the target masks, whatever the checkpoint stored there,
\* and the stored value at every other position.
C15_TargetMaskKept ==
  (outcome.op = "restore" /\ outcome.handler = "flax"
     /\ outcome.status = "ok")
  => /\ Len(TreeSeq(outcome.state)) = Len(TreeSeq(outcome.item))
     /\ \A p \in 1..Len(TreeSeq(outcome.item)) :
          is_any_masked_node(TreeSeq(outcome.item)[p])
            => TreeSeq(outcome.state)[p] = TreeSeq(outcome.item)[p]
     /\ \A i \in 1..Len(LegacyLeavesOf(outcome.item)) :
          ~is_bprop_masked_node(LegacyLeavesOf(outcome.item)[i])
            => LegacyLeavesOf(outcome.state)[i] = directory.entries[i].value

C15_Witness ==
  /\ outcome.op = "restore"
  /\ outcome.handler = "flax"
  /\ outcome.status = "ok"
  /\ directory.item.opt_states = <<SlotArray(1), SlotArray(2)>>
  /\ directory.entries[3].value = SlotArray(1)
  /\ outcome.item.opt_states = <<BpropMaskedNode, ShapeDtypeStruct>>
  /\ outcome.state.opt_states = <<BpropMaskedNode, SlotArray(2)>>

\* str(pytree_state) of a restore target.
SignatureOf(item) == str_treedef(tree_structure(item, bprop_is_leaf))

C17_ProbingReversible ==
  (outcome.op = "restore" /\ outcome.handler = "flax")
  => LET fresh == flax_checkpointer_restore(FlaxCheckpointHandler, directory,
                                            outcome.is_file, outcome.item,
                                            outcome.version)
     IN /\ outcome.status \in {"ok", "None"} =>
             handler.aggregate_filename = outcome.before.aggregate_filename
        /\ outcome.status = fresh.status
        /\ outcome.state = fresh.state

\* C22 (the claim as stated): structure(directory) of the sharded handler is
\* parsed from the aggregate file whenever that file is in the directory,
\* and has exactly one placeholder per leaf stored in the directory
\* otherwise.
C22_StructureOfDirectory ==
  outcome.op = "structure" =>
    IF directory.aggregate_file # ""
    THEN outcome.did = <<"super().structure">>
    ELSE /\ Len(outcome.read) = Len(directory.entries)
         /\ Range(outcome.read) = StoredNames(directory.entries)


\* ------------------------------------------------------ get_checkpointer
\* A checkpointer is its handler; async tells an AsyncCheckpointer.
\* NoCheckpointer stands for async_checkpointer=None.
Checkpointer(h) == [status |-> "ok", handler |-> h, async |-> FALSE]
AsyncCheckpointer(h) == [status |-> "ok", handler |-> h, async |-> TRUE]
NoCheckpointer ==
  [status |-> "None", handler |-> FlaxCheckpointHandler, async |-> FALSE]

get_checkpointer(checkpoint_type, async_checkpointer, enforce_restore_shape_check, tensorstore_use_ocdbt) ==
  IF async_checkpointer.status # "None" THEN async_checkpointer
  ELSE IF checkpoint_type \in {"GDA", "GDA_VERSION_SUBDIR"}
  THEN Checkpointer(PaxCheckpointHandler(enforce_restore_shape_check,
                                         tensorstore_use_ocdbt))
  ELSE IF checkpoint_type = "FLAX" THEN Checkpointer(FlaxCheckpointHandler)
  ELSE [NoCheckpointer EXCEPT !.status = "ValueError"]

\* Checkpointer.save and Checkpointer.restore hand the call to the handler;
\* FlaxCheckpointer.restore wraps it.  restore_kwargs is the specs passed on,
\* NoState when there are none.
checkpointer_save(checkpointer, item, version) ==
  IF checkpointer.handler.class = "PaxCheckpointHandler"
  THEN pax_async_save(checkpointer.handler, item, version)
  ELSE flax_async_save(checkpointer.handler, item, version)

checkpointer_restore(checkpointer, dir, item, restore_kwargs, version) ==
  IF checkpointer.handler.class = "PaxCheckpointHandler"
  THEN pax_restore(checkpointer.handler, dir, item, restore_kwargs, version)
  ELSE flax_checkpointer_restore(checkpointer.handler, dir, FALSE, item,
                                 version)

\* ----------------------------------------------- OrbaxCheckpointManager
\* checkpoint_managers.py is not among the sources; the manager follows the
\* directory protocol the specification gives for it: a save writes into a
\* temporary directory and commits by renaming it, refuses an existing step
\* unless forced, waits for the write in flight before it starts another,
\* and latest_step is the highest committed step.  A layout version above 1
\* keeps unpadded-shape metadata; without it a restore warns and goes on.
ReturnedNone == RestoreResult(FlaxCheckpointHandler, "None", NoState, <<>>, <<>>)

CommittedSteps(dirs) == {k \in DOMAIN dirs : dirs[k].written}

MaxOf(S) == CHOOSE k \in S : \A j \in S : j <= k

latest_step_any_directory(dirs) ==
  LET steps == CommittedSteps(dirs)
               \cup (IF tmp.exists THEN {tmp.step} ELSE {})
  IN IF steps = {} THEN NoStep ELSE MaxOf(steps)

latest_step(dirs) ==
  IF CommittedSteps(dirs) = {} THEN NoStep ELSE MaxOf(CommittedSteps(dirs))

manager_accepts_save(dirs, step, force) ==
  force \/ step \notin CommittedSteps(dirs)

\* Whether the manager starts a write now: never while one is in flight.
manager_starts_write_always(writing) == TRUE

manager_starts_write(writing) == ~writing

\* Whether a restore without unpadded-shape metadata is the degraded one.
manager_restore_warns(version, unpadded) ==
  version > 1 /\ unpadded = NoState

manager_restore(checkpointer, dirs, step, item, unpadded, restore_kwargs) ==
  IF step \notin CommittedSteps(dirs) THEN ReturnedNone
  ELSE checkpointer_restore(checkpointer, dirs[step], item, restore_kwargs,
                            Version)

\* ------------------------------------------------------- save_checkpoint
\* What save_checkpoint asks of the manager: the step of the state itself
\* and force = overwrite.
save_request_always_force(train_state, overwrite) ==
  [step |-> train_state.step.data, item |-> train_state, force |-> TRUE]

save_request_next_step(train_state, overwrite) ==
  [step |-> IF latest_step(committed) < MaxStep
            THEN latest_step(committed) + 1 ELSE MaxStep,
   item |-> train_state, force |-> overwrite]

save_request(train_state, overwrite) ==
  [step |-> train_state.step.data, item |-> train_state, force |-> overwrite]

\* save_checkpoint up to the manager's save: the checkpointer, the filesystem
\* accesses so far (the manager is created with create=True), whether the
\* warning was logged and the unpadded shapes handed to the manager.
\* unpadded = NoState stands for train_state_unpadded_shape_dtype_struct=None.
save_checkpoint_requires_unpadded(train_state, overwrite, async_checkpointer, unpadded) ==
  LET checkpointer == get_checkpointer(cfg.checkpoint_type, async_checkpointer,
                                       FALSE, cfg.tensorstore_use_ocdbt)
      req == save_request(train_state, overwrite)
  IN IF checkpointer.status # "ok" \/ (cfg.version > 1 /\ unpadded = NoState)
     THEN [status |-> "ValueError", io |-> <<>>, warned |-> FALSE,
           checkpointer |-> checkpointer, request |-> req,
           unpadded |-> unpadded]
     ELSE [status |-> "ok", io |-> <<"mkdir">>, warned |-> FALSE,
           checkpointer |-> checkpointer, request |-> req,
           unpadded |-> unpadded]

save_checkpoint(train_state, overwrite, async_checkpointer, unpadded) ==
  LET checkpointer == get_checkpointer(cfg.checkpoint_type, async_checkpointer,
                                       FALSE, cfg.tensorstore_use_ocdbt)
      req == save_request(train_state, overwrite)
      warned == cfg.version > 1 /\ unpadded = NoState
  IN IF checkpointer.status # "ok"
     THEN [status |-> "ValueError", io |-> <<>>, warned |-> FALSE,
           checkpointer |-> checkpointer, request |-> req,
           unpadded |-> unpadded]
     ELSE [status |-> "ok", io |-> <<"mkdir">>, warned |-> warned,
           checkpointer |-> checkpointer, request |-> req,
           unpadded |-> IF warned THEN get_shape_dtype_struct(train_state)
                        ELSE unpadded]

\* ---------------------------------------------------- restore_checkpoint
\* state_specs and unpadded are NoState when the caller gives none; io is
\* the filesystem accesses made, in order.
RestoreReturn(status, state, io, warned) ==
  [status |-> status, state |-> state, io |-> io, warned |-> warned]

ManagerReturn(r, io, warned) == RestoreReturn(r.status, r.state, io, warned)

restore_checkpoint_no_none_check(state_global_shapes, state_specs, step, enforce_restore_shape_check, unpadded) ==
  LET checkpointer == get_checkpointer(cfg.checkpoint_type, NoCheckpointer,
                                       enforce_restore_shape_check,
                                       cfg.tensorstore_use_ocdbt)
      resolved == IF step = NoStep THEN latest_step(committed) ELSE step
      restore_args == IF cfg.checkpoint_type = "GDA" THEN state_specs
                      ELSE NoState
      r == manager_restore(checkpointer, committed, resolved,
                           state_global_shapes, unpadded, restore_args)
  IN IF ~dir_exists THEN RestoreReturn("None", NoState, <<"exists">>, FALSE)
     ELSE IF resolved = NoStep
       THEN RestoreReturn("ValueError", NoState, <<"exists", "list">>, FALSE)
     ELSE ManagerReturn(r, <<"exists", "list", "read">>,
                   manager_restore_warns(cfg.version, unpadded))

restore_checkpoint_last_commit(state_global_shapes, state_specs, step, enforce_restore_shape_check, unpadded) ==
  LET checkpointer == get_checkpointer(cfg.checkpoint_type, NoCheckpointer,
                                       enforce_restore_shape_check,
                                       cfg.tensorstore_use_ocdbt)
      resolved == IF step = NoStep THEN last_commit ELSE step
      restore_args == IF cfg.checkpoint_type = "GDA" THEN state_specs
                      ELSE NoState
      r == manager_restore(checkpointer, committed, resolved,
                           state_global_shapes, unpadded, restore_args)
  IN IF ~dir_exists THEN RestoreReturn("None", NoState, <<"exists">>, FALSE)
     ELSE IF resolved = NoStep
       THEN RestoreReturn("None", NoState, <<"exists", "list">>, FALSE)
     ELSE ManagerReturn(r, <<"exists", "list", "read">>,
                   manager_restore_warns(cfg.version, unpadded))

restore_checkpoint(state_global_shapes, state_specs, step, enforce_restore_shape_check, unpadded) ==
  LET checkpointer == get_checkpointer(cfg.checkpoint_type, NoCheckpointer,
                                       enforce_restore_shape_check,
                                       cfg.tensorstore_use_ocdbt)
      resolved == IF step = NoStep THEN latest_step(committed) ELSE step
      restore_args == IF cfg.checkpoint_type = "GDA" THEN state_specs
                      ELSE NoState
      r == manager_restore(checkpointer, committed, resolved,
                           state_global_shapes, unpadded, restore_args)
  IN IF ~dir_exists THEN RestoreReturn("None", NoState, <<"exists">>, FALSE)
     ELSE IF checkpointer.status # "ok"
       THEN RestoreReturn(checkpointer.status, NoState, <<"exists">>, FALSE)
     ELSE IF resolved = NoStep
       THEN RestoreReturn("None", NoState, <<"exists", "list">>, FALSE)
     ELSE ManagerReturn(r, <<"exists", "list", "read">>,
                   manager_restore_warns(cfg.version, unpadded))

\* ------------------------------------------------------------------ Spec
\* The TrainStates saved under the directory protocol: the first optimizer
\* slot masked, the others real.
ManagerStates ==
  {TrainState(Array(k), <<Array(1)>>, <<MaskedNode, v>>) :
     k \in 1..MaxStep, v \in {Array(1), Array(2)}}

\* Restore targets: the structure that was saved, and one without the mask.
ManagerTargets ==
  {get_shape_dtype_struct(ts) : ts \in ManagerStates}
    \cup {TrainState(ShapeDtypeStruct, <<ShapeDtypeStruct>>,
                     <<ShapeDtypeStruct, ShapeDtypeStruct>>)}

\* The runs: the checkpoint type asked for, whether the caller brings an
\* AsyncCheckpointer, and the layout version of the manager.  GDA and
\* GDA_VERSION_SUBDIR both select the sharded handler; PERSISTENCE is a type
\* get_checkpointer does not know.
Configurations ==
  {[checkpoint_type |-> "FLAX", tensorstore_use_ocdbt |-> FALSE,
    async |-> FALSE, version |-> 1],
   [checkpoint_type |-> "GDA", tensorstore_use_ocdbt |-> FALSE,
    async |-> TRUE, version |-> 2],
   [checkpoint_type |-> "GDA_VERSION_SUBDIR", tensorstore_use_ocdbt |-> FALSE,
    async |-> FALSE, version |-> 2],
   [checkpoint_type |-> "PERSISTENCE", tensorstore_use_ocdbt |-> FALSE,
    async |-> FALSE, version |-> 1]}

\* The async_checkpointer argument of the run.
RunAsyncCheckpointer ==
  IF cfg.async
  THEN AsyncCheckpointer(PaxCheckpointHandler(FALSE, cfg.tensorstore_use_ocdbt))
  ELSE NoCheckpointer

Init ==
  /\ call = NoCall
  /\ directory = NoDirectory
  /\ outcome = NoOutcome
  /\ handler = FlaxCheckpointHandler
  /\ cfg \in Configurations
  /\ dir_exists \in BOOLEAN
  /\ committed = [k \in 1..MaxStep |-> NoDirectory]
  /\ last_commit = NoStep
  /\ tmp = NoTmp
  /\ api = NoApi
  /\ ProgramIdle

\* save_checkpoint up to the point where the manager starts writing: the
\* manager is created with create=True, waits for the write in flight, then
\* either refuses the step or opens the temporary directory of the step.
SaveCheckpoint ==
  /\ api.op = "none"
  /\ manager_starts_write(tmp.writing)
  /\ \E train_state \in ManagerStates, overwrite \in BOOLEAN :
       \E unpadded \in {NoState, get_shape_dtype_struct(train_state)} :
         LET c == save_checkpoint(train_state, overwrite,
                                  RunAsyncCheckpointer, unpadded)
             req == c.request
             saved == checkpointer_save(c.checkpointer, req.item, Version)
             existed == req.step \in CommittedSteps(committed)
             done == [NoApi EXCEPT !.op = "save", !.step = req.step,
                        !.overwrite = overwrite, !.item = train_state,
                        !.io = c.io, !.warned = c.warned, !.given = unpadded,
                        !.unpadded = c.unpadded]
         IN IF c.status # "ok"
            THEN /\ api' = [done EXCEPT !.status = c.status]
                 /\ UNCHANGED <<dir_exists, tmp>>
            ELSE /\ dir_exists' = TRUE
                 /\ IF manager_accepts_save(committed, req.step, req.force)
                    THEN /\ tmp' = [exists |-> TRUE, writing |-> TRUE,
                                    step |-> req.step, dir |-> saved.dir,
                                    written |-> 0, existed |-> existed,
                                    latest_before |-> latest_step(committed)]
                         /\ api' = [done EXCEPT !.status = "writing"]
                    ELSE /\ tmp' = tmp
                         /\ api' = [done EXCEPT !.status = "refused"]
  /\ UNCHANGED <<treeVars, programVars, handlerVars, cfg, committed, last_commit>>

\* The training loop runs a step; with an AsyncCheckpointer it does so while
\* the write is in flight, otherwise save_checkpoint has not returned yet.
TrainStep ==
  /\ api.op = "none"
  /\ tmp.writing => cfg.async
  /\ api' = [NoApi EXCEPT !.op = "train"]
  /\ UNCHANGED <<treeVars, programVars, handlerVars, cfg, dir_exists, committed,
                 last_commit, tmp>>

\* The handler writes one more entry into the temporary directory.
WriteEntry ==
  /\ api.op = "none"
  /\ tmp.writing
  /\ tmp.written < Len(tmp.dir.entries)
  /\ tmp' = [tmp EXCEPT !.written = @ + 1]
  /\ api' = [NoApi EXCEPT !.op = "write", !.step = tmp.step]
  /\ UNCHANGED <<treeVars, programVars, handlerVars, cfg, dir_exists, committed, last_commit>>

\* Every entry is written: the temporary directory is renamed to the step
\* directory, replacing the one that was there.
CommitCheckpoint ==
  /\ api.op = "none"
  /\ tmp.writing
  /\ tmp.written = Len(tmp.dir.entries)
  /\ committed' = [committed EXCEPT ![tmp.step] = tmp.dir]
  /\ last_commit' = tmp.step
  /\ tmp' = NoTmp
  /\ api' = [NoApi EXCEPT !.op = "commit", !.step = tmp.step,
               !.overwrite = tmp.existed, !.item = tmp.dir.item,
               !.status = "ok"]
  /\ UNCHANGED <<treeVars, programVars, handlerVars, cfg, dir_exists>>

\* The process dies during the write; the temporary directory stays behind
\* with whatever was written, which nothing reads again.
Crash ==
  /\ api.op = "none"
  /\ tmp.writing
  /\ tmp' = [tmp EXCEPT !.writing = FALSE, !.dir = NoDirectory,
                        !.written = 0]
  /\ api' = [NoApi EXCEPT !.op = "crash", !.step = tmp.step]
  /\ UNCHANGED <<treeVars, programVars, handlerVars, cfg, dir_exists, committed, last_commit>>

RestoreCheckpoint ==
  /\ api.op = "none"
  /\ \E state_global_shapes \in ManagerTargets, step \in 0..MaxStep :
       \E unpadded \in {NoState, state_global_shapes} :
         LET r == restore_checkpoint(state_global_shapes,
                                     PartitionSpecsOf(state_global_shapes),
                                     step, FALSE, unpadded)
         IN api' = [NoApi EXCEPT !.op = "restore", !.step = step,
                      !.item = state_global_shapes, !.status = r.status,
                      !.state = r.state, !.io = r.io, !.warned = r.warned,
                      !.given = unpadded, !.unpadded = unpadded]
  /\ UNCHANGED <<treeVars, programVars, handlerVars, cfg, dir_exists, committed,
                 last_commit, tmp>>

\* The call or step is over: its result has gone to the caller.
RestoreReturns ==
  /\ api.op # "none"
  /\ api' = NoApi
  /\ UNCHANGED <<treeVars, programVars, handlerVars, cfg, dir_exists, committed,
                 last_commit, tmp>>

Next ==
  \/ SaveCheckpoint
  \/ TrainStep
  \/ WriteEntry
  \/ CommitCheckpoint
  \/ Crash
  \/ RestoreCheckpoint
  \/ RestoreReturns

Spec == Init /\ [][Next]_vars


\* The checkpointer save_checkpoint uses in the run, the one
\* restore_checkpoint constructs, and the highest committed step computed
\* from the committed directories alone.
RunCheckpointer ==
  get_checkpointer(cfg.checkpoint_type, RunAsyncCheckpointer, FALSE,
                   cfg.tensorstore_use_ocdbt)

RestoreCheckpointer ==
  get_checkpointer(cfg.checkpoint_type, NoCheckpointer, FALSE,
                   cfg.tensorstore_use_ocdbt)

HighestCommitted ==
  CHOOSE k \in CommittedSteps(committed) :
    \A j \in CommittedSteps(committed) : j <= k

\* C2: latest_step() is none or a step whose commit has completed, with every
\* entry of the saved state in place; while a write is in flight and after a
\* crash in the middle of it, latest_step() is what it was before the write
\* began, and is not the step being written unless that step was already
\* committed.
C2_LatestStepIsCommitted ==
  LET latest == latest_step(committed)
  IN /\ (latest = NoStep) <=> (CommittedSteps(committed) = {})
     /\ latest # NoStep =>
          /\ committed[latest].written
          /\ committed[latest]
               = checkpointer_save(RunCheckpointer, committed[latest].item,
                                   Version).dir
     /\ tmp.exists => latest = tmp.latest_before
     /\ (tmp.exists /\ ~tmp.existed) => latest # tmp.step

C2_Witness ==
  /\ api.op = "crash"
  /\ tmp.exists
  /\ ~tmp.writing
  /\ latest_step(committed) = 1
  /\ tmp.step = 2
  /\ ~committed[2].written

\* C3: a save at a step that has a committed checkpoint is refused when
\* overwrite is false, and the committed directories stay as they are; when
\* overwrite is true its commit replaces the step directory by exactly what
\* saving the new state writes, and leaves the other steps alone.
C3_OverwriteOnlyWhenForced ==
  [][/\ (/\ api'.op = "save"
         /\ api'.step \in CommittedSteps(committed)
         /\ ~api'.overwrite)
        => (/\ api'.status = "refused"
            /\ committed' = committed
            /\ tmp' = tmp)
     /\ (/\ api'.op = "save"
         /\ api'.step \in CommittedSteps(committed)
         /\ api'.overwrite)
        => (/\ api'.status = "writing"
            /\ committed' = committed)
     /\ (api'.op = "commit" /\ tmp.writing /\ tmp.existed)
        => (/\ committed'[tmp.step]
                 = checkpointer_save(RunCheckpointer, tmp.dir.item,
                                     Version).dir
            /\ \A k \in 1..MaxStep :
                 k # tmp.step => committed'[k] = committed[k]
            /\ ~tmp'.exists)
    ]_vars

C3_Witness ==
  /\ api.op = "commit"
  /\ api.overwrite
  /\ committed[api.step].item = api.item
  /\ api.item.opt_states[2] = Array(2)
  /\ ~tmp.exists

\* C4: after commits in any order latest_step() is the numerically highest
\* committed step, and restore_checkpoint with step=None returns what
\* restore_checkpoint with that step returns.
C4_RestoreNoneIsRestoreLatest ==
  CommittedSteps(committed) # {} =>
    /\ latest_step(committed) = HighestCommitted
    /\ (api.op = "restore" /\ api.step = NoStep) =>
         LET r == restore_checkpoint(api.item, PartitionSpecsOf(api.item),
                                     HighestCommitted, FALSE, api.given)
         IN /\ api.status = r.status
            /\ api.state = r.state

C4_Witness ==
  /\ api.op = "restore"
  /\ api.step = NoStep
  /\ Cardinality(CommittedSteps(committed)) = 2
  /\ last_commit = 1
  /\ api.status = "ok"
  /\ api.state.step = Array(2)

C14_UnknownTypeFailsBeforeIO ==
  (/\ api.op \in {"save", "restore"}
   /\ cfg.checkpoint_type \notin {"FLAX", "GDA", "GDA_VERSION_SUBDIR"})
  => /\ api.status = "ValueError"
     /\ api.io = <<>>

\* C18: at most one checkpoint write is in flight: a save starts a write
\* only when none is pending, also under an AsyncCheckpointer, where training
\* steps run while the write is pending.
C18_AtMostOneWriteInFlight ==
  [][/\ (api'.op = "save" /\ api'.status = "writing") => ~tmp.writing
     /\ (api'.op = "train" /\ tmp.writing) => (cfg.async /\ tmp' = tmp)
    ]_vars

C18_Witness ==
  /\ cfg.async
  /\ api.op = "train"
  /\ tmp.writing
  /\ tmp.written > 0
  /\ last_commit # NoStep

C20_SaveRaisesWithoutUnpaddedShapes ==
  (api.op = "save" /\ cfg.version > 1 /\ api.given = NoState)
  => api.status = "ValueError"

InflightQueue(max_inflight) ==
  [tracking |-> max_inflight > 0, maxsize |-> max_inflight, items |-> <<>>]

\* Queue.full(): 0 < maxsize <= qsize.
queue_full(q) == 0 < q.maxsize /\ q.maxsize <= Len(q.items)

wait_for_next_keeps(q) == [queue |-> q, waited |-> <<>>]

\* wait_for_next: get() the oldest computation of a full queue and block
\* until it is ready.
wait_for_next(q) ==
  IF q.tracking /\ queue_full(q)
  THEN [queue |-> [q EXCEPT !.items = Tail(q.items)],
        waited |-> <<Head(q.items)>>]
  ELSE [queue |-> q, waited |-> <<>>]

\* add_computation: put() blocks for as long as the queue is full.
add_computation(q, computation) ==
  IF ~q.tracking
  THEN [queue |-> q, blocked |-> FALSE]
  ELSE IF queue_full(q)
       THEN [queue |-> q, blocked |-> TRUE]
       ELSE [queue |-> [q EXCEPT !.items = Append(q.items, computation)],
             blocked |-> FALSE]

wait_for_all_once(q) ==
  IF q.tracking /\ q.items # <<>>
  THEN [queue |-> [q EXCEPT !.items = Tail(q.items)],
        waited |-> <<Head(q.items)>>]
  ELSE [queue |-> q, waited |-> <<>>]

\* wait_for_all: get() and wait for every computation, oldest first.
wait_for_all(q) ==
  IF q.tracking
  THEN [queue |-> [q EXCEPT !.items = <<>>], waited |-> q.items]
  ELSE [queue |-> q, waited |-> <<>>]

QueueOf(t) ==
  [tracking |-> t.tracking, maxsize |-> t.max_inflight_steps,
   items |-> t.items]

Latest(waited, finished) ==
  IF waited # <<>> /\ waited[Len(waited)] > finished
  THEN waited[Len(waited)] ELSE finished

\* BaseTrainProgram.setup creates the queue from train.max_inflight_steps.
TrainInit ==
  /\ call = NoCall
  /\ directory = NoDirectory
  /\ outcome = NoOutcome
  /\ handler = FlaxCheckpointHandler
  /\ ManagerIdle
  /\ eval = NoEval
  /\ files = {}
  /\ input = NoInput
  /\ \E max_inflight \in -1..MaxInflight :
       train = [NoTrain EXCEPT
                  !.max_inflight_steps = max_inflight,
                  !.tracking = InflightQueue(max_inflight).tracking]

\* BaseTrainProgram.run: wait_for_next, dispatch the train step, then
\* add_computation of its loss.  Blocking until a computation is ready
\* lets every computation up to it finish.
TrainProgramRun ==
  /\ train.op # "shutdown"
  /\ ~train.blocked
  /\ train.step < MaxTrainSteps
  /\ LET q == QueueOf(train)
         w == wait_for_next(q)
         a == add_computation(w.queue, train.step + 1)
     IN train' = [train EXCEPT
                    !.op = "run", !.step = train.step + 1,
                    !.full = queue_full(q),
                    !.oldest = IF q.items = <<>> THEN 0 ELSE Head(q.items),
                    !.items = a.queue.items, !.waited = w.waited,
                    !.finished = Latest(w.waited, train.finished),
                    !.blocked = a.blocked,
                    !.added = IF Len(a.queue.items) > Len(w.queue.items)
                              THEN Append(train.added, train.step + 1)
                              ELSE train.added,
                    !.drained = train.drained \o w.waited]
  /\ UNCHANGED <<treeVars, handlerVars, managerVars, evalVars, inputVars>>

\* The device finishes the oldest dispatched train step that is still
\* running.
ComputationFinishes ==
  /\ train.finished < train.step
  /\ ~train.blocked
  /\ train' = [train EXCEPT !.finished = train.finished + 1]
  /\ UNCHANGED <<treeVars, handlerVars, managerVars, evalVars, inputVars>>

\* BaseTrainProgram.shutdown.
TrainShutdown ==
  /\ train.op # "shutdown"
  /\ ~train.blocked
  /\ LET q == QueueOf(train)
         w == wait_for_all(q)
     IN train' = [train EXCEPT
                    !.op = "shutdown", !.full = queue_full(q),
                    !.oldest = IF q.items = <<>> THEN 0 ELSE Head(q.items),
                    !.items = w.queue.items, !.waited = w.waited,
                    !.finished = Latest(w.waited, train.finished),
                    !.drained = train.drained \o w.waited]
  /\ UNCHANGED <<treeVars, handlerVars, managerVars, evalVars, inputVars>>

TrainNext == TrainProgramRun \/ ComputationFinishes \/ TrainShutdown

SpecTrain == TrainInit /\ [][TrainNext]_vars

\* C24: the number of tracked in-flight train-step computations never
\* exceeds max_inflight_steps; a run that finds the queue full waits on
\* its oldest computation and removes it before adding the new one, so
\* add_computation never blocks; with max_inflight_steps <= 0 nothing is
\* tracked and nothing is waited on.
C24_InflightBounded ==
  /\ ~train.blocked
  /\ train.max_inflight_steps > 0 =>
       Len(train.items) <= train.max_inflight_steps
  /\ (train.op = "run" /\ train.full) =>
       /\ train.waited = <<train.oldest>>
       /\ \A i \in 1..Len(train.items) : train.items[i] # train.oldest
       /\ train.finished >= train.oldest
  /\ (train.op = "run" /\ train.max_inflight_steps > 0) =>
       train.items[Len(train.items)] = train.step
  /\ train.max_inflight_steps <= 0 =>
       train.items = <<>> /\ train.waited = <<>>

C24_Witness ==
  /\ train.op = "run"
  /\ train.full
  /\ train.max_inflight_steps = MaxInflight
  /\ Len(train.items) = MaxInflight
  /\ train.waited = <<train.oldest>>
  /\ train.step > MaxInflight + 1


\* ------------------------------------ programs.py: eval output files
\* A key/value pair is [key, serializable]; a scoring output list is a
\* sequence of pairs whose keys are their positions.
PairLists ==
  UNION {[1..n -> [key : {0}, serializable : BOOLEAN]] : n \in 0..MaxPairs}

ScoringOutputs ==
  {[i \in 1..Len(l) |-> [l[i] EXCEPT !.key = i]] : l \in PairLists}

RECURSIVE SerializablePrefix(_)
SerializablePrefix(key_value_pairs) ==
  IF key_value_pairs = <<>> \/ ~Head(key_value_pairs).serializable
  THEN <<>>
  ELSE <<Head(key_value_pairs)>> \o SerializablePrefix(Tail(key_value_pairs))

\* io_utils.write_key_value_pairs: writes the pairs in order, one line per
\* pair, and raises TypeError at the first pair json cannot encode.
write_key_value_pairs(key_value_pairs) ==
  [written |-> SerializablePrefix(key_value_pairs),
   raised |-> IF \A i \in 1..Len(key_value_pairs) :
                    key_value_pairs[i].serializable
              THEN "none" ELSE "TypeError"]

\* safe_write_key_value_pairs: one try around the whole write; a TypeError
\* is logged and swallowed.
safe_write_key_value_pairs(key_value_pairs) ==
  [written |-> write_key_value_pairs(key_value_pairs).written,
   logged |-> write_key_value_pairs(key_value_pairs).raised = "TypeError",
   raised |-> write_key_value_pairs(key_value_pairs).raised
                \notin {"none", "TypeError"}]

\* get_filename called on process `process`.
get_filename(step, prefix, process) ==
  <<prefix, "out", step, "shard", process>>

WithFile(fs, f) == {g \in fs : g.name # f.name} \cup {f}

maybe_write_scoring_outputs_everywhere(process, only_aggregate, step, scoring_outputs, fs) ==
  [files |-> WithFile(fs,
       [name |-> get_filename(step, "eval", process), writer |-> process,
        pairs |-> safe_write_key_value_pairs(scoring_outputs).written]),
   logged |-> safe_write_key_value_pairs(scoring_outputs).logged,
   raised |-> safe_write_key_value_pairs(scoring_outputs).raised]

\* _maybe_write_scoring_outputs on process `process`.
maybe_write_scoring_outputs(process, only_aggregate, step, scoring_outputs, fs) ==
  IF process # 0 \/ only_aggregate
  THEN [files |-> fs, logged |-> FALSE, raised |-> FALSE]
  ELSE [files |-> WithFile(fs,
            [name |-> get_filename(step, "eval", process),
             writer |-> process,
             pairs |-> safe_write_key_value_pairs(scoring_outputs).written]),
        logged |-> safe_write_key_value_pairs(scoring_outputs).logged,
        raised |-> safe_write_key_value_pairs(scoring_outputs).raised]

RECURSIVE Concat(_)
Concat(seqs) == IF seqs = <<>> THEN <<>> ELSE Head(seqs) \o Concat(Tail(seqs))

\* io_utils.load_outputs: the pairs of the output files of one step, over
\* every shard.
load_outputs(fs, prefix, step, process_count) ==
  Concat([q \in 1..process_count |->
            IF \E f \in fs : f.name = get_filename(step, prefix, q - 1)
            THEN (CHOOSE f \in fs :
                    f.name = get_filename(step, prefix, q - 1)).pairs
            ELSE <<>>])

broadcast_keeps_local(success, process_count) == success

\* multihost_utils.broadcast_one_to_all: every process receives the value
\* of process 0.
broadcast_one_to_all(success, process_count) ==
  [q \in 1..process_count |-> success[1]]

\* can_load_written_outputs on every process of the job: only process 0
\* loads; `success` is the local array of each process before the
\* broadcast.
can_load_written_outputs(fs, step, process_count, load_failed) ==
  [loaded |-> IF load_failed THEN <<>>
              ELSE load_outputs(fs, "eval", step, process_count),
   success |-> [q \in 1..process_count |->
                  IF q - 1 = 0 /\ ~load_failed
                  THEN Len(load_outputs(fs, "eval", step, process_count))
                  ELSE 0]]

\* ProgramOutput: the train state and the auxiliary values a program
\* returns.
ProgramOutput_fresh_state(state, aux) == [state |-> 0, aux |-> aux]

ProgramOutput(state, aux) == [state |-> state, aux |-> aux]

NoAux ==
  [eval_metrics |-> "None", eval_scoring_metrics |-> "None",
   num_eval_steps |-> -1]

\* BaseEvalProgram.setup: the step count of the eval loop.
setup(reset_for_eval, eval_loop_num_batches) ==
  IF reset_for_eval THEN -1 ELSE eval_loop_num_batches

\* The except clause of _run_eval_loop, entered when get_next_padded finds
\* the input exhausted; `loop` is the loop so far.
on_exhausted_always_resets(eval_num_steps, loop) ==
  [loop EXCEPT !.resets = loop.resets + 1, !.pos = 0]

on_exhausted(eval_num_steps, loop) ==
  IF eval_num_steps > 0
  THEN [loop EXCEPT !.status = "StopIteration"]
  ELSE [loop EXCEPT !.resets = loop.resets + 1, !.pos = 0]

\* The while loop of _run_eval_loop over an input of num_batches batches of
\* which pos were read since its last reset; get_next_padded raises when
\* none is left.
RECURSIVE EvalLoop(_, _, _)
EvalLoop(eval_num_steps, num_batches, loop) ==
  IF ~(eval_num_steps < 0 \/ loop.step_num < eval_num_steps)
  THEN loop
  ELSE IF loop.pos >= num_batches
    THEN on_exhausted(eval_num_steps, [loop EXCEPT !.reads = loop.reads + 1])
  ELSE EvalLoop(eval_num_steps, num_batches,
                [loop EXCEPT !.reads = loop.reads + 1,
                             !.pos = loop.pos + 1,
                             !.step_num = loop.step_num + 1])

run_eval_loop(eval_num_steps, num_batches, pos) ==
  EvalLoop(eval_num_steps, num_batches,
           [step_num |-> 0, reads |-> 0, resets |-> 0, pos |-> pos,
            status |-> "ok"])

\* SpecEval: an input of one batch that is reset after every eval.
EvalInit ==
  /\ call = NoCall
  /\ directory = NoDirectory
  /\ outcome = NoOutcome
  /\ handler = FlaxCheckpointHandler
  /\ ManagerIdle
  /\ train = NoTrain
  /\ input = NoInput
  /\ files = {}
  /\ \E process_count \in 1..MaxProcesses, only_aggregate \in BOOLEAN :
       eval = [NoEval EXCEPT
                 !.process_count = process_count,
                 !.pax_only_aggregate_summaries = only_aggregate,
                 !.eval_num_steps = setup(TRUE, 1),
                 !.num_batches = 1,
                 !.pos = [q \in 1..process_count |-> 0]]

\* SpecEvalProgram: one process, every eval input and every setting of the
\* eval loop.
EvalProgramInit ==
  /\ call = NoCall
  /\ directory = NoDirectory
  /\ outcome = NoOutcome
  /\ handler = FlaxCheckpointHandler
  /\ ManagerIdle
  /\ train = NoTrain
  /\ input = NoInput
  /\ files = {}
  /\ \E reset_for_eval \in BOOLEAN,
        eval_loop_num_batches \in 0..MaxLoopBatches,
        num_batches \in 0..MaxEvalBatches :
       eval = [NoEval EXCEPT
                 !.eval_num_steps = setup(reset_for_eval,
                                          eval_loop_num_batches),
                 !.num_batches = num_batches,
                 !.pos = <<0>>]

EvalSettled ==
  \A q \in 1..Len(eval.ran) : eval.ran[q] \in {"skipped", "evaluated"}

\* Every process enters BaseEvalProgram.run for one train step and meets
\* the others in the broadcast of can_load_written_outputs.
CanLoadWrittenOutputs ==
  /\ EvalSettled
  /\ \E step \in 1..MaxEvalStep, load_failed \in BOOLEAN,
        scoring_outputs \in ScoringOutputs, state \in Vals :
       LET T == eval.process_count
           c == can_load_written_outputs(files, step, T, load_failed)
       IN eval' = [eval EXCEPT
                     !.step = step, !.phase = "decided",
                     !.load_failed = load_failed, !.loaded = c.loaded,
                     !.success = c.success,
                     !.can_load = [q \in 1..T |->
                        broadcast_one_to_all(c.success, T)[q] > 0],
                     !.ran = [q \in 1..T |-> "pending"],
                     !.scoring_outputs = scoring_outputs,
                     !.logged = [q \in 1..T |-> FALSE],
                     !.raised = [q \in 1..T |-> FALSE],
                     !.state = state,
                     !.output = [q \in 1..T |-> ProgramOutput(0, NoAux)],
                     !.reads = [q \in 1..T |-> 0],
                     !.resets = [q \in 1..T |-> 0],
                     !.summaries = [q \in 1..T |-> 0]]
  /\ UNCHANGED <<treeVars, handlerVars, managerVars, trainVars, inputVars,
                 files>>

\* The rest of BaseEvalProgram.run on one process: return at once when the
\* outputs can be loaded, else run the eval loop, write the summary and
\* the scoring outputs of the steps that ran; an error of the loop leaves
\* run before anything is written.
EvalRun(process) ==
  /\ eval.phase = "decided"
  /\ process < eval.process_count
  /\ eval.ran[process + 1] = "pending"
  /\ IF eval.can_load[process + 1]
     THEN /\ eval' = [eval EXCEPT
                        !.ran[process + 1] = "skipped",
                        !.output[process + 1] = ProgramOutput(eval.state,
                          [eval_metrics |-> "None",
                           eval_scoring_metrics |-> "None",
                           num_eval_steps |-> 0])]
          /\ UNCHANGED files
     ELSE LET loop == run_eval_loop(eval.eval_num_steps, eval.num_batches,
                                    eval.pos[process + 1])
              flat_scoring_outputs ==
                IF loop.step_num = 0 THEN <<>> ELSE eval.scoring_outputs
              w == maybe_write_scoring_outputs(process,
                     eval.pax_only_aggregate_summaries, eval.step,
                     flat_scoring_outputs, files)
          IN IF loop.status # "ok"
             THEN /\ eval' = [eval EXCEPT
                                !.ran[process + 1] = loop.status,
                                !.pos[process + 1] = loop.pos,
                                !.reads[process + 1] = loop.reads,
                                !.resets[process + 1] = loop.resets]
                  /\ UNCHANGED files
             ELSE /\ files' = w.files
                  /\ eval' = [eval EXCEPT
                                !.ran[process + 1] = "evaluated",
                                !.logged[process + 1] = w.logged,
                                !.raised[process + 1] = w.raised,
                                !.pos[process + 1] = loop.pos,
                                !.reads[process + 1] = loop.reads,
                                !.resets[process + 1] = loop.resets,
                                !.summaries[process + 1] = 1,
                                !.output[process + 1] =
                                  ProgramOutput(eval.state,
                                    [eval_metrics |-> "metrics",
                                     eval_scoring_metrics |-> "None",
                                     num_eval_steps |-> loop.step_num])]
  /\ UNCHANGED <<treeVars, handlerVars, managerVars, trainVars, inputVars>>

EvalNext ==
  \/ CanLoadWrittenOutputs
  \/ \E process \in 0..(MaxProcesses - 1) : EvalRun(process)

SpecEval == EvalInit /\ [][EvalNext]_vars

SpecEvalProgram == EvalProgramInit /\ [][EvalNext]_vars


EvalFile(process) ==
  {f \in files : f.name = get_filename(eval.step, "eval", process)}

LoadedByLeader == ~eval.load_failed /\ eval.loaded # <<>>

\* C23: when a pair given to safe_write_key_value_pairs is not
\* serializable, the failure is logged, only that pair is skipped and the
\* remaining pairs are still written; no error reaches the caller.
C23_OnlyBadPairSkipped ==
  (/\ eval.phase = "decided"
   /\ eval.ran[1] = "evaluated"
   /\ ~eval.pax_only_aggregate_summaries) =>
    /\ \E f \in EvalFile(0) :
         f.pairs = SelectSeq(eval.scoring_outputs,
                             LAMBDA kv : kv.serializable)
    /\ eval.logged[1] =
         (\E i \in 1..Len(eval.scoring_outputs) :
            ~eval.scoring_outputs[i].serializable)
    /\ ~eval.raised[1]

\* C25: can_load_written_outputs returns the same boolean on every
\* process, equal to whether process 0 loaded a non-empty set of outputs
\* (a failed load counts as false), so BaseEvalProgram.run is skipped on
\* all processes or on none.
C25_SameDecisionEverywhere ==
  eval.phase = "decided" =>
    /\ \A q \in 1..eval.process_count :
         /\ eval.can_load[q] = LoadedByLeader
         /\ eval.ran[q] # "pending" =>
              (eval.ran[q] = "skipped") = LoadedByLeader
    /\ \A q1, q2 \in 1..eval.process_count :
         (eval.ran[q1] # "pending" /\ eval.ran[q2] # "pending") =>
           eval.ran[q1] = eval.ran[q2]

C25_Witness ==
  /\ eval.phase = "decided"
  /\ eval.process_count = MaxProcesses
  /\ LoadedByLeader
  /\ \A q \in 1..eval.process_count : eval.ran[q] = "skipped"

\* C26: across the processes running one eval step the scoring-output
\* file is written by process 0 and by no other process, and by no process
\* at all when pax_only_aggregate_summaries is set.
C26_OnlyLeaderWrites ==
  /\ \A f \in files : f.writer = 0 /\ f.name[5] = 0
  /\ eval.pax_only_aggregate_summaries => files = {}
  /\ (/\ eval.phase = "decided"
      /\ eval.ran[1] = "evaluated"
      /\ ~eval.pax_only_aggregate_summaries) => EvalFile(0) # {}

C26_Witness ==
  /\ eval.phase = "decided"
  /\ eval.process_count = MaxProcesses
  /\ ~eval.pax_only_aggregate_summaries
  /\ \A q \in 1..eval.process_count : eval.ran[q] = "evaluated"
  /\ EvalFile(0) # {}
  /\ \A q \in 1..(eval.process_count - 1) : EvalFile(q) = {}


\* --------------------------- checkpoints.py: BaseInputCheckpointHandler
\* `input.saved` holds what the items wrote below the directory: the path,
\* the process (index and count) that wrote it and the iterator state
\* written; `input.state` is the iterator state of the item of the last
\* call, 0 when it restored from a path nothing was written to.
checkpoint_path_shared(process_index, process_count) ==
  <<"process", 0, "of", process_count>>

\* directory / f'process_{jax.process_index()}-of-{jax.process_count()}'
checkpoint_path(process_index, process_count) ==
  <<"process", process_index, "of", process_count>>

\* BaseInputCheckpointHandler.save: the calls made on the item.
input_save(process_index, process_count) ==
  [status |-> "ok", path |-> checkpoint_path(process_index, process_count),
   did |-> <<"item.save">>]

\* BaseInputCheckpointHandler.restore.
input_restore(process_index, process_count, item, exists) ==
  IF item = "None"
  THEN [status |-> "ValueError", path |-> <<>>, did |-> <<>>]
  ELSE IF ~exists
       THEN [status |-> "ValueError", path |-> <<>>, did |-> <<>>]
       ELSE [status |-> "ok",
             path |-> checkpoint_path(process_index, process_count),
             did |-> <<"item.restore">>]

InputInit ==
  /\ call = NoCall
  /\ directory = NoDirectory
  /\ outcome = NoOutcome
  /\ handler = FlaxCheckpointHandler
  /\ ManagerIdle
  /\ train = NoTrain
  /\ eval = NoEval
  /\ files = {}
  /\ \E process_count \in 1..MaxProcesses, exists \in BOOLEAN :
       input = [NoInput EXCEPT !.process_count = process_count,
                               !.exists = exists]

StateAt(saved, path) ==
  IF \E f \in saved : f.path = path
  THEN (CHOOSE f \in saved : f.path = path).state ELSE 0

\* One process saves its input; the item writes its iterator state to the
\* path it is given.
InputSave(process) ==
  /\ process < input.process_count
  /\ \E state \in Vals :
       LET r == input_save(process, input.process_count)
       IN input' = [input EXCEPT
                      !.op = "save", !.process = process, !.item = "input",
                      !.status = r.status, !.path = r.path, !.did = r.did,
                      !.state = state, !.exists = TRUE,
                      !.saved = {f \in input.saved : f.path # r.path} \cup
                        {[path |-> r.path, process |-> process,
                          count |-> input.process_count, state |-> state]}]
  /\ UNCHANGED <<treeVars, handlerVars, managerVars, trainVars, evalVars>>

\* One process restores its input, or calls restore without an item.
InputRestore(process) ==
  /\ process < input.process_count
  /\ \E item \in {"None", "input"} :
       LET r == input_restore(process, input.process_count, item,
                              input.exists)
       IN input' = [input EXCEPT
                      !.op = "restore", !.process = process, !.item = item,
                      !.status = r.status, !.path = r.path, !.did = r.did,
                      !.state = StateAt(input.saved, r.path)]
  /\ UNCHANGED <<treeVars, handlerVars, managerVars, trainVars, evalVars>>

\* The job is started again with another number of processes.
InputRestart ==
  /\ \E process_count \in 1..MaxProcesses :
       /\ process_count # input.process_count
       /\ input' = [input EXCEPT
                      !.process_count = process_count, !.op = "none",
                      !.process = 0, !.item = "None", !.status = "none",
                      !.path = <<>>, !.did = <<>>, !.state = 0]
  /\ UNCHANGED <<treeVars, handlerVars, managerVars, trainVars, evalVars>>

InputCheckpointNext ==
  \/ \E process \in 0..(MaxProcesses - 1) : InputSave(process)
  \/ \E process \in 0..(MaxProcesses - 1) : InputRestore(process)
  \/ InputRestart

SpecInputCheckpoint == InputInit /\ [][InputCheckpointNext]_vars

\* C27: process r of T saves to and restores from process_r-of-T below the
\* directory, so distinct processes never write one path and a process
\* restores the path it saved under the same process count; restore raises
\* without calling the item's restore when the item is missing or the
\* directory does not exist.
C27_PerProcessPath ==
  /\ \A f \in input.saved :
       f.path = <<"process", f.process, "of", f.count>>
  /\ \A f, g \in input.saved :
       f.path = g.path => (f.process = g.process /\ f.count = g.count)
  /\ input.op = "save" =>
       /\ input.did = <<"item.save">>
       /\ input.path = <<"process", input.process, "of", input.process_count>>
  /\ (input.op = "restore" /\ input.item # "None" /\ input.exists) =>
       /\ input.status = "ok"
       /\ input.did = <<"item.restore">>
       /\ input.path = <<"process", input.process, "of", input.process_count>>
       /\ \A f \in input.saved :
            (f.process = input.process /\ f.count = input.process_count) =>
              (f.path = input.path /\ input.state = f.state)
  /\ (input.op = "restore" /\ (input.item = "None" \/ ~input.exists)) =>
       /\ input.status = "ValueError"
       /\ input.did = <<>>

C27_Witness ==
  /\ input.op = "restore"
  /\ input.status = "ok"
  /\ input.process_count = MaxProcesses
  /\ input.process = MaxProcesses - 1
  /\ input.state # 0
  /\ \E f, g \in input.saved :
       /\ f.count = MaxProcesses /\ g.count = MaxProcesses
       /\ f.process # g.process
       /\ f.path = input.path


\* ----------------------------------- tasks/lm/input_generator.py: datasets
\* A tf.data.Dataset is the sequence of its elements.
RECURSIVE Repeat(_, _)
Repeat(dataset, count) ==
  IF count <= 0 THEN <<>> ELSE dataset \o Repeat(dataset, count - 1)

Take(dataset, count) ==
  SubSeq(dataset, 1, IF count < Len(dataset) THEN count ELSE Len(dataset))

\* Dataset.shard: every num_shards-th element, starting at `index`.
Shard(dataset, num_shards, index) ==
  [k \in 1..((Len(dataset) - index + num_shards - 1) \div num_shards) |->
     dataset[index + 1 + (k - 1) * num_shards]]

\* Dataset.batch with drop_remainder=False.
Batch(dataset, batch_size) ==
  [k \in 1..((Len(dataset) + batch_size - 1) \div batch_size) |->
     SubSeq(dataset, (k - 1) * batch_size + 1,
            IF k * batch_size < Len(dataset)
            THEN k * batch_size ELSE Len(dataset))]

Lines(count) == [i \in 1..count |-> i]

\* TextInput.computed_num_samples.
computed_num_samples(num_samples, lines) ==
  IF num_samples > 0 THEN num_samples ELSE Len(lines)

num_to_truncate_floor(samples, num_infeed_hosts, batch_size) ==
  (samples \div (num_infeed_hosts * batch_size))
    * (num_infeed_hosts * batch_size)

\* TextInput._num_to_truncate.
num_to_truncate(samples, num_infeed_hosts, batch_size) ==
  ((samples + num_infeed_hosts * batch_size - 1)
     \div (num_infeed_hosts * batch_size))
    * (num_infeed_hosts * batch_size)

num_repeat_without_extra(samples, num_infeed_hosts, batch_size) ==
  num_to_truncate(samples, num_infeed_hosts, batch_size) \div samples

\* TextInput._gen_dataset: num_repeat.
num_repeat(samples, num_infeed_hosts, batch_size) ==
  num_to_truncate(samples, num_infeed_hosts, batch_size) \div samples + 1

\* TextInput._gen_dataset on the host `infeed_host_index`; the division by
\* computed_num_samples fails on an empty input.
text_gen_dataset(lines, samples, num_infeed_hosts, batch_size, infeed_host_index) ==
  IF samples = 0
  THEN <<>>
  ELSE Batch(Shard(Take(Repeat(lines,
                                num_repeat(samples, num_infeed_hosts,
                                           batch_size)),
                        num_to_truncate(samples, num_infeed_hosts,
                                        batch_size)),
                   num_infeed_hosts, infeed_host_index),
             batch_size)

\* TFRecordBertInput._all_paddings_batch and _pad_to_batch_size: a batch is
\* [rows, examples], the rows beyond `examples` being padding.
all_paddings_batch(batch_size) == [rows |-> batch_size, examples |-> 0]

pad_to_batch_size(batch, batch_size) ==
  [rows |-> Len(batch) + (batch_size - Len(batch)), examples |-> Len(batch)]

pad_to_even_length_unpadded(dataset, n, eval_data_size, batch_size) ==
  dataset

\* TFRecordBertInput._pad_to_even_length.
pad_to_even_length(dataset, n, eval_data_size, batch_size) ==
  IF n <= 1
  THEN dataset
  ELSE LET total_batches ==
             IF eval_data_size < 1 THEN Len(dataset)
             ELSE (eval_data_size + batch_size - 1) \div batch_size
       IN IF total_batches % n = 0
          THEN dataset
          ELSE dataset \o
               [i \in 1..(((total_batches + n - 1) \div n) * n
                            - total_batches) |->
                  all_paddings_batch(batch_size)]

\* TFRecordBertInput._gen_dataset for eval data (is_training False), up to
\* the padding.
bert_eval_batches(records, batch_size) ==
  [k \in 1..Len(Batch(Lines(records), batch_size)) |->
     pad_to_batch_size(Batch(Lines(records), batch_size)[k], batch_size)]

NoGen ==
  [fn |-> "none", samples |-> 0, num_samples |-> 0, num_infeed_hosts |-> 1,
   batch_size |-> 1, eval_data_size |-> 0, status |-> "none", result |-> 0,
   dataset |-> <<>>, padded |-> <<>>, hosts |-> <<>>]

InputGenInit ==
  /\ call = NoCall
  /\ directory = NoDirectory
  /\ outcome = NoOutcome
  /\ handler = FlaxCheckpointHandler
  /\ ManagerIdle
  /\ ProgramIdle

\* TextInput._num_to_truncate on an input of `samples` lines whose
\* num_samples is the number of lines, or 0 for "count them".
NumToTruncate ==
  /\ \E samples \in 0..MaxSamples, counted \in BOOLEAN,
        num_infeed_hosts \in 1..MaxHosts, batch_size \in 1..MaxBatch :
       LET num_samples == IF counted THEN 0 ELSE samples
       IN call' = [NoGen EXCEPT
                     !.fn = "_num_to_truncate", !.samples = samples,
                     !.num_samples = num_samples,
                     !.num_infeed_hosts = num_infeed_hosts,
                     !.batch_size = batch_size, !.status = "ok",
                     !.result = num_to_truncate(
                        computed_num_samples(num_samples, Lines(samples)),
                        num_infeed_hosts, batch_size)]
  /\ UNCHANGED <<handlerVars, managerVars, programVars>>

\* TextInput._gen_dataset on every infeed host.
TextGenDataset ==
  /\ \E samples \in 0..MaxSamples, counted \in BOOLEAN,
        num_infeed_hosts \in 1..MaxHosts, batch_size \in 1..MaxBatch :
       LET num_samples == IF counted THEN 0 ELSE samples
       IN call' = [NoGen EXCEPT
                     !.fn = "TextInput._gen_dataset", !.samples = samples,
                     !.num_samples = num_samples,
                     !.num_infeed_hosts = num_infeed_hosts,
                     !.batch_size = batch_size,
                     !.status = IF samples = 0 THEN "ZeroDivisionError"
                                ELSE "ok",
                     !.hosts = [h \in 1..num_infeed_hosts |->
                        text_gen_dataset(Lines(samples),
                          computed_num_samples(num_samples, Lines(samples)),
                          num_infeed_hosts, batch_size, h - 1)]]
  /\ UNCHANGED <<handlerVars, managerVars, programVars>>

\* TFRecordBertInput._gen_dataset for eval data on every infeed host;
\* eval_data_size is the number of examples, or 0 for unknown.
BertGenDataset ==
  /\ \E records \in 0..MaxSamples, unknown \in BOOLEAN,
        n \in 1..MaxHosts, batch_size \in 1..MaxBatch :
       LET eval_data_size == IF unknown THEN 0 ELSE records
           padded == pad_to_even_length(
                       bert_eval_batches(records, batch_size), n,
                       eval_data_size, batch_size)
       IN call' = [NoGen EXCEPT
                     !.fn = "TFRecordBertInput._gen_dataset",
                     !.samples = records, !.eval_data_size = eval_data_size,
                     !.num_infeed_hosts = n, !.batch_size = batch_size,
                     !.status = "ok",
                     !.dataset = bert_eval_batches(records, batch_size),
                     !.padded = padded,
                     !.hosts = [h \in 1..n |-> Shard(padded, n, h - 1)]]
  /\ UNCHANGED <<handlerVars, managerVars, programVars>>

InputGenNext == NumToTruncate \/ TextGenDataset \/ BertGenDataset

SpecInput == InputGenInit /\ [][InputGenNext]_vars

\* C28: for every sample count S >= 1, host count H >= 1 and batch size
\* B >= 1, TextInput gives every infeed host the same number of batches,
\* every batch has exactly B rows, and every input line is returned at
\* least once across the hosts.
C28_FullSynchronizedBatches ==
  (call.fn = "TextInput._gen_dataset" /\ call.samples >= 1) =>
    /\ call.status = "ok"
    /\ \A h \in 1..call.num_infeed_hosts :
         /\ Len(call.hosts[h]) = Len(call.hosts[1])
         /\ \A k \in 1..Len(call.hosts[h]) :
              Len(call.hosts[h][k]) = call.batch_size
    /\ \A line \in 1..call.samples :
         \E h \in 1..call.num_infeed_hosts :
           \E k \in 1..Len(call.hosts[h]) :
             \E j \in 1..Len(call.hosts[h][k]) :
               call.hosts[h][k][j] = line

C28_Witness ==
  /\ call.fn = "TextInput._gen_dataset"
  /\ call.num_infeed_hosts >= 2
  /\ call.batch_size >= 2
  /\ call.samples % (call.num_infeed_hosts * call.batch_size) # 0
  /\ call.samples > call.num_infeed_hosts * call.batch_size
  /\ \A h \in 1..call.num_infeed_hosts : Len(call.hosts[h]) = 2

\* C29: TextInput._num_to_truncate returns the smallest multiple of
\* num_infeed_hosts * batch_size that is greater than or equal to the
\* number of samples.
C29_SmallestCoveringMultiple ==
  call.fn = "_num_to_truncate" =>
    LET n == call.num_infeed_hosts * call.batch_size
    IN /\ call.result % n = 0
       /\ call.result >= call.samples
       /\ call.result - n < call.samples

C29_Witness ==
  /\ call.fn = "_num_to_truncate"
  /\ call.samples > call.num_infeed_hosts * call.batch_size
  /\ call.num_infeed_hosts >= 2
  /\ call.batch_size >= 2
  /\ call.result > call.samples

\* C30: after _pad_to_even_length the number of batches of the eval data
\* is divisible by the host count n, fewer than n padding batches were
\* added, none when n <= 1 or the count was already divisible, and after
\* sharding every host sees the same number of batches.
C30_EvenEvalBatches ==
  call.fn = "TFRecordBertInput._gen_dataset" =>
    LET n == call.num_infeed_hosts
        before == Len(call.dataset)
        after == Len(call.padded)
    IN /\ after % n = 0
       /\ after >= before
       /\ after - before < n
       /\ SubSeq(call.padded, 1, before) = call.dataset
       /\ \A i \in (before + 1)..after : call.padded[i].examples = 0
       /\ (n <= 1 \/ before % n = 0) => after = before
       /\ \A h \in 1..n : Len(call.hosts[h]) = after \div n

C30_Witness ==
  /\ call.fn = "TFRecordBertInput._gen_dataset"
  /\ call.num_infeed_hosts = MaxHosts
  /\ call.eval_data_size >= 1
  /\ Len(call.padded) - Len(call.dataset) = MaxHosts - 1
  /\ \A h \in 1..call.num_infeed_hosts : Len(call.hosts[h]) >= 2


\* C38: after BaseTrainProgram.shutdown returns, every computation a train
\* step added to the in-flight queue has been removed from it and waited
\* on, each exactly once and in the order it was added, over wait_for_next
\* and wait_for_all together.
C38_ShutdownDrains ==
  train.op = "shutdown" =>
    /\ train.items = <<>>
    /\ train.drained = train.added
    /\ train.max_inflight_steps > 0 =>
         train.added = [i \in 1..train.step |-> i]
    /\ \A i \in 1..Len(train.added) : train.finished >= train.added[i]

C38_Witness ==
  /\ train.op = "shutdown"
  /\ train.max_inflight_steps = MaxInflight
  /\ Len(train.waited) = MaxInflight
  /\ Len(train.drained) > Len(train.waited)
  /\ train.drained = train.added


\* C33 (the claim as stated): when FlaxCheckpointer.restore fails with an
\* error on a single-file legacy checkpoint, the aggregate filename of the
\* handler is back at its original value afterwards, so that a later
\* restore of a directory checkpoint looks for the standard aggregate file.
C33_FilenameResetOnError ==
  (/\ outcome.op = "restore"
   /\ outcome.handler = "flax"
   /\ outcome.is_file
   /\ outcome.status \notin {"ok", "None"}) =>
    handler.aggregate_filename = outcome.before.aggregate_filename


\* The _param_names the sharded handler `before` holds after the call that
\* left `after_call` in `outcome`: those of the item of a save or restore
\* that is not OCDBT, unset after an OCDBT save, and what they were after
\* every other step (a call refused for its missing version, a restore of
\* an OCDBT checkpoint, structure).
NamesAfter(before, after_call, dir) ==
  IF after_call.op = "construct"
    THEN [set |-> FALSE, names |-> <<>>]
  ELSE IF after_call.op \notin {"save", "restore"}
          \/ after_call.version = "None"
    THEN before.param_names
  ELSE IF after_call.op = "save"
    THEN IF before.use_ocdbt
         THEN [set |-> FALSE, names |-> <<>>]
         ELSE [set |-> TRUE,
               names |-> tensorstore_prepare(after_call.item, NoState).names]
  ELSE IF dir.ocdbt
    THEN before.param_names
  ELSE [set |-> TRUE,
        names |-> tensorstore_prepare(after_call.item, NoState).names]

C35_MaskTreatmentAgrees ==
  (outcome.op = "restore" /\ outcome.handler = "pax"
     /\ outcome.version # "None") =>
    /\ directory.ocdbt = (directory.aggregate_file # "")
    /\ Len(directory.entries) = NumUnmasked(directory.item)
    /\ IF directory.ocdbt /\ ~outcome.before.use_ocdbt
       THEN /\ outcome.status = "ValueError"
            /\ outcome.state = NoState
            /\ outcome.read = <<>>
            /\ outcome.did = <<"is_ocdbt_checkpoint">>
       ELSE IF directory.ocdbt
       THEN /\ "_tensorstore_prepare" \notin Range(outcome.did)
            /\ handler.param_names = outcome.before.param_names
       ELSE /\ "_tensorstore_prepare" \in Range(outcome.did)
            /\ handler.param_names.names
                 = tensorstore_prepare(outcome.item, NoState).names
            /\ outcome.status = "ok" =>
                 /\ Len(outcome.read) = NumUnmasked(outcome.item)
                 /\ \A q \in MaskedPositions(outcome.item) :
                      TreeSeq(outcome.state)[q] = MaskedNode

C35_Witness ==
  /\ outcome.op = "restore"
  /\ outcome.handler = "pax"
  /\ outcome.status = "ok"
  /\ ~directory.ocdbt
  /\ outcome.before.use_ocdbt
  /\ directory.item.opt_states = <<SlotArray(1), MaskedNode>>
  /\ outcome.state.opt_states = <<SlotArray(1), MaskedNode>>


\* The step a restore_checkpoint call resolves to: the one asked for, the
\* latest committed one when none is given.
ResolvedStep == IF api.step = NoStep THEN latest_step(committed) ELSE api.step

\* C34 (the claim as stated): for every checkpoint type for which
\* get_checkpointer selects the sharded handler (GDA and
\* GDA_VERSION_SUBDIR), restore_checkpoint forwards the caller's partition
\* specs to the handler: the call returns what the handler's restore
\* returns from the step directory when it is given those specs.
C34_SpecsForwarded ==
  (/\ api.op = "restore"
   /\ RestoreCheckpointer.handler.class = "PaxCheckpointHandler"
   /\ dir_exists
   /\ ResolvedStep \in CommittedSteps(committed)) =>
    /\ api.status = pax_restore(RestoreCheckpointer.handler,
                                committed[ResolvedStep], api.item,
                                PartitionSpecsOf(api.item), Version).status
    /\ api.state = pax_restore(RestoreCheckpointer.handler,
                               committed[ResolvedStep], api.item,
                               PartitionSpecsOf(api.item), Version).state


\* The position of the i-th leaf of a TrainState that is not masked, and
\* the dotted path of a position.
UnmaskedPosition(ts, i) ==
  CHOOSE q \in 1..Len(TreeSeq(ts)) :
    /\ q \notin MaskedPositions(ts)
    /\ Cardinality((1..q) \ MaskedPositions(ts)) = i

DottedPath(ts, q) ==
  IF q = 1 THEN "step"
  ELSE IF q <= 1 + Len(ts.mdl_vars)
    THEN "mdl_vars_" \o ToString(q - 2)
  ELSE "opt_states_" \o ToString(q - 2 - Len(ts.mdl_vars))

\* C37: the i-th flattened name of _tensorstore_prepare is the dotted path
\* of the i-th flattened value, and of the i-th flattened partition spec
\* when specs are given; the names, and so the order, are those the
\* function gives for every tree of the same structure, on the save path
\* (arrays) and on the restore path (their shapes).
C37_NamesFollowValues ==
  call.fn = "prepare" =>
    /\ Len(call.names) = Len(call.values)
    /\ \A i \in 1..Len(call.values) :
         /\ call.names[i] = DottedPath(call.item, UnmaskedPosition(call.item, i))
         /\ call.values[i] = TreeSeq(call.item)[UnmaskedPosition(call.item, i)]
    /\ call.specs # NoState =>
         /\ Len(call.flat_specs) = Len(call.values)
         /\ \A i \in 1..Len(call.flat_specs) :
              call.flat_specs[i].data = UnmaskedPosition(call.item, i)
    /\ \A other \in StatesOver({1}, ShardedLeaves) :
         MaskedPositions(other) = MaskedPositions(call.item) =>
           /\ tensorstore_prepare(other, NoState).names = call.names
           /\ tensorstore_prepare(get_shape_dtype_struct(other),
                                  NoState).names = call.names

C37_Witness ==
  /\ call.fn = "prepare"
  /\ call.specs # NoState
  /\ is_optax_masked_node(call.item.opt_states[1])
  /\ call.names = <<"step", "mdl_vars_0", "opt_states_1">>
  /\ call.values[3] = call.item.opt_states[2]
  /\ call.flat_specs[3].data = 4


\* A process leaves BaseEvalProgram.run in this step.
RunEnds(q) ==
  /\ eval.phase = "decided"
  /\ q <= eval.process_count
  /\ eval.ran[q] = "pending"
  /\ eval'.ran[q] # "pending"

\* C31: BaseEvalProgram.run returns the train state it received, on the
\* skip path and on the full path; on the skip path (the outputs of the
\* step can be loaded) it runs no eval step, reads no input batch, writes
\* no summary and no output file, and reports num_eval_steps = 0.
C31_EvalKeepsState ==
  [][\A q \in 1..MaxProcesses :
       RunEnds(q) =>
         /\ eval'.state = eval.state
         /\ eval'.ran[q] \in {"skipped", "evaluated"} =>
              eval'.output[q].state = eval.state
         /\ (eval'.ran[q] = "skipped") = eval.can_load[q]
         /\ eval'.ran[q] = "skipped" =>
              /\ eval'.output[q].aux.num_eval_steps = 0
              /\ eval'.reads[q] = 0
              /\ eval'.resets[q] = 0
              /\ eval'.pos[q] = eval.pos[q]
              /\ eval'.summaries[q] = 0
              /\ files' = files]_vars

C31_Witness ==
  /\ eval.phase = "decided"
  /\ eval.ran[1] = "skipped"
  /\ eval.output[1].state = eval.state
  /\ eval.state = NumVals
  /\ eval.output[1].aux.num_eval_steps = 0
  /\ eval.pos[1] = 1
  /\ eval.reads[1] = 0

\* C32: the eval loop of a run that is not skipped, over an input with
\* `left` batches left: with a negative eval_num_steps it runs one step per
\* batch left, resets the input exactly once and ends normally; with a
\* positive eval_num_steps it runs exactly that many steps and ends, and
\* when fewer batches are left the exhaustion is raised and the input is
\* not reset; with eval_num_steps 0 it runs no step and reads no batch.
C32_LoopStepCount ==
  [][\A q \in 1..MaxProcesses :
       (RunEnds(q) /\ ~eval.can_load[q]) =>
         LET n == eval.eval_num_steps
             left == eval.num_batches - eval.pos[q]
             num_eval_steps == eval'.output[q].aux.num_eval_steps
         IN /\ n < 0 =>
                 /\ eval'.ran[q] = "evaluated"
                 /\ num_eval_steps = left
                 /\ eval'.reads[q] = left + 1
                 /\ eval'.resets[q] = 1
                 /\ eval'.pos[q] = 0
            /\ (n > 0 /\ left >= n) =>
                 /\ eval'.ran[q] = "evaluated"
                 /\ num_eval_steps = n
                 /\ eval'.reads[q] = n
                 /\ eval'.resets[q] = 0
                 /\ eval'.pos[q] = eval.pos[q] + n
            /\ (n > 0 /\ left < n) =>
                 /\ eval'.ran[q] = "StopIteration"
                 /\ eval'.reads[q] = left + 1
                 /\ eval'.resets[q] = 0
                 /\ eval'.pos[q] = eval.num_batches
                 /\ files' = files
            /\ n = 0 =>
                 /\ eval'.ran[q] = "evaluated"
                 /\ num_eval_steps = 0
                 /\ eval'.reads[q] = 0
                 /\ eval'.resets[q] = 0
                 /\ eval'.pos[q] = eval.pos[q]]_vars

C32_Witness ==
  /\ eval.phase = "decided"
  /\ eval.eval_num_steps = 1
  /\ eval.ran[1] = "StopIteration"
  /\ eval.reads[1] = 1
  /\ eval.resets[1] = 0
  /\ eval.pos[1] = MaxEvalBatches
  /\ files # {}

====
